---------------------------- MODULE Spec2Model ----------------------------
(***************************************************************************)
(* Model of csvex: the background indexer (src/index.rs), the filter       *)
(* lexer / compiler / evaluator (src/filter/*.rs), and the application     *)
(* event loop (src/main.rs, src/ui.rs, src/prompt.rs, src/source.rs).      *)
(*                                                                         *)
(* Text is modelled as sequences of one-character strings; byte positions  *)
(* are 0-based as in the source, sequence positions 1-based.               *)
(***************************************************************************)
EXTENDS Integers, Sequences, FiniteSets, TLC

(***************************************************************************)
(* Bounds of the model.                                                    *)
(***************************************************************************)
\* Throttling period of the indexer worker: `count % 1000 == 0` in
\* index.rs:76.  The period is scaled down so that several throttling
\* windows fit in a checkable file; every property is stated relative to N.
N == 2
\* Largest number of records of a file in the Indexer specification.
MaxRecords == 5
\* Largest number of Indexer runs the application starts (open + refresh /
\* filter submissions).
MaxRuns == 2
\* Longest text typed in the filter prompt.
MaxPrompt == 1
\* Largest value of a u32 (u32::MAX), scaled to the model's integers.
U32_MAX == 255

(***************************************************************************)
(* Small helpers.                                                          *)
(***************************************************************************)
Min(a, b) == IF a <= b THEN a ELSE b
Max(a, b) == IF a >= b THEN a ELSE b

\* All sequences over S of length 0..n.
SeqsUpTo(S, n) == UNION {[1..k -> S] : k \in 0..n}

\* s[a..b) with 0-based byte positions (Rust slice &s[a..b]).
Slice(s, a, b) == SubSeq(s, a + 1, b)

IsPrefix(s, t) == Len(s) <= Len(t) /\ SubSeq(t, 1, Len(s)) = s

RECURSIVE SumSeq(_)
SumSeq(s) == IF s = <<>> THEN 0 ELSE Head(s) + SumSeq(Tail(s))

(***************************************************************************)
(* Character classes (char::is_whitespace, is_ascii_digit,                 *)
(* is_alphanumeric) over the characters the model types.                   *)
(***************************************************************************)
Digits == {"0", "1", "2", "3", "4", "5", "6", "7", "8", "9"}
Letters == {"a", "b", "c", "d", "e", "g", "h", "l", "m", "n", "o", "q", "r",
            "s", "t", "y"}
IsWhitespace(c) == c \in {" ", "\t"}
IsDigit(c) == c \in Digits
IsAlnum(c) == c \in Digits \cup Letters

DigitVal(c) ==
    CASE c = "0" -> 0 [] c = "1" -> 1 [] c = "2" -> 2 [] c = "3" -> 3
      [] c = "4" -> 4 [] c = "5" -> 5 [] c = "6" -> 6 [] c = "7" -> 7
      [] c = "8" -> 8 [] c = "9" -> 9

\* Value of a string of digits, saturating just above U32_MAX so that the
\* overflow test of str::parse::<u32> stays computable.
RECURSIVE DigitsVal(_, _)
DigitsVal(s, acc) ==
    IF s = <<>> THEN acc
    ELSE DigitsVal(Tail(s), Min(acc * 10 + DigitVal(Head(s)), U32_MAX + 1))

AllDigits(s) == s # <<>> /\ \A k \in 1..Len(s) : IsDigit(s[k])

\* str::parse::<u32>: an optional '+', then digits, value <= u32::MAX.
\* Returns -1 for Err.
ParseU32(s) ==
    LET body == IF s # <<>> /\ Head(s) = "+" THEN Tail(s) ELSE s
    IN IF AllDigits(body) /\ DigitsVal(body, 0) <= U32_MAX
       THEN DigitsVal(body, 0) ELSE -1

\* str::parse::<Decimal>().is_ok() for the words the lexer hands it: an
\* optional sign followed by digits (a word holds no '.').
DecimalOk(s) ==
    LET body == IF s # <<>> /\ Head(s) \in {"+", "-"} THEN Tail(s) ELSE s
    IN AllDigits(body)

(***************************************************************************)
(* Lexer (src/filter/lexer.rs).  A token is [kind, op, s, e]: its kind,    *)
(* the operator it carries ("" when none) and its byte span s..e.          *)
(***************************************************************************)
Token(kind, op, s, e) == [kind |-> kind, op |-> op, s |-> s, e |-> e]

\* The closures the lexer passes to find_map, by name.
Holds(cls, c) ==
    CASE cls = "not_whitespace" -> ~IsWhitespace(c)
      [] cls = "not_digit" -> ~IsDigit(c)
      [] cls = "not_alnum" -> ~IsAlnum(c)
      [] cls = "quote" -> c = "\""

\* Smallest 0-based i >= from with Holds(cls, str[i]), or -1
\* (Iterator::find_map over char_indices).
RECURSIVE FindFrom(_, _, _)
FindFrom(str, from, cls) ==
    IF from >= Len(str) THEN -1
    ELSE IF Holds(cls, str[from + 1]) THEN from
    ELSE FindFrom(str, from + 1, cls)

TwoCharKeyword(a, b) ==
    CASE a = "=" /\ b = "=" -> <<"Cmp", "Eq">>
      [] a = "!" /\ b = "=" -> <<"Cmp", "Ne">>
      [] a = ">" /\ b = "=" -> <<"Cmp", "Ge">>
      [] a = "<" /\ b = "=" -> <<"Cmp", "Le">>
      [] a = "&" /\ b = "&" -> <<"Logi", "And">>
      [] a = "|" /\ b = "|" -> <<"Logi", "Or">>
      [] OTHER -> <<"Eof", "">>

OneCharKeyword(a) ==
    CASE a = ">" -> <<"Cmp", "Gt">>
      [] a = "<" -> <<"Cmp", "Lt">>
      [] a = "~" -> <<"Matches", "">>
      [] a = "!" -> <<"Not", "">>
      [] a = "(" -> <<"OpenExpr", "">>
      [] a = ")" -> <<"CloseExpr", "">>
      [] a = "{" -> <<"OpenList", "">>
      [] a = "}" -> <<"CloseList", "">>
      [] a = "[" -> <<"OpenRange", "">>
      [] a = "]" -> <<"CloseRange", "">>
      [] a = "," -> <<"SepList", "">>
      [] a = ":" -> <<"SepRangeEnd", "">>
      [] OTHER -> <<"Eof", "">>

WordKeyword(w) ==
    CASE w = <<"e", "q">> -> <<"Cmp", "Eq">>
      [] w = <<"n", "e">> -> <<"Cmp", "Ne">>
      [] w = <<"g", "t">> -> <<"Cmp", "Gt">>
      [] w = <<"l", "t">> -> <<"Cmp", "Lt">>
      [] w = <<"g", "e">> -> <<"Cmp", "Ge">>
      [] w = <<"l", "e">> -> <<"Cmp", "Le">>
      [] w = <<"a", "n", "d">> -> <<"Logi", "And">>
      [] w = <<"o", "r">> -> <<"Logi", "Or">>
      [] w = <<"a", "l", "l">> -> <<"Match", "All">>
      [] w = <<"a", "n", "y">> -> <<"Match", "Any">>
      [] w = <<"m", "a", "t", "c", "h", "e", "s">> -> <<"Matches", "">>
      [] w = <<"n", "o", "t">> -> <<"Not", "">>
      [] OTHER -> IF DecimalOk(w) THEN <<"Nb", "">> ELSE <<"Id", "">>

\* Lexer::lex_next from byte offset off: the token read; the lexer's new
\* offset is the token's end.
LexNext(src, off) ==
    LET Lex(o, remaining, two, one) ==
            LET UpTo(q, add) ==
                    IF q = -1 THEN Len(remaining) ELSE q + add
                Word(len, kw) == Token(kw[1], kw[2], o, o + len)
                Alnum(len) ==
                    Word(len, WordKeyword(SubSeq(remaining, 1, len)))
            IN IF two[1] # "Eof" THEN Token(two[1], two[2], o, o + 2)
               ELSE IF one[1] # "Eof" THEN Token(one[1], one[2], o, o + 1)
               ELSE IF remaining = <<>> THEN Token("Eof", "", o, o)
               ELSE IF remaining[1] = "\"" THEN
                    Token("Str", "", o,
                          o + UpTo(FindFrom(remaining, 1, "quote"), 1))
               ELSE IF IsDigit(remaining[1]) THEN
                    Token("Nb", "", o,
                          o + UpTo(FindFrom(remaining, 1, "not_digit"), 0))
               ELSE Alnum(UpTo(FindFrom(remaining, 1, "not_alnum"), 0))
        Rest(o, remaining) ==
            Lex(o, remaining,
                IF Len(remaining) >= 2
                THEN TwoCharKeyword(remaining[1], remaining[2])
                ELSE <<"Eof", "">>,
                IF Len(remaining) >= 1
                THEN OneCharKeyword(remaining[1]) ELSE <<"Eof", "">>)
        At(o) == Rest(o, Slice(src, o, Len(src)))
        Skip(ws) == At(off + (IF ws = -1 THEN 0 ELSE ws - off))
    IN Skip(FindFrom(src, off, "not_whitespace"))

\* The tokens Lexer::next returns one after the other, up to and including
\* the first Eof (every later call returns that Eof again).
RECURSIVE Tokenize(_, _)
Tokenize(src, off) ==
    LET From(t) ==
            IF t.kind = "Eof" THEN <<t>> ELSE <<t>> \o Tokenize(src, t.e)
    IN From(LexNext(src, off))

\* The i-th token handed out by the lexer (peek / next), i >= 1.
Tok(toks, i) == IF i > Len(toks) THEN toks[Len(toks)] ELSE toks[i]
\* Token::str
TokStr(src, t) == Slice(src, t.s, t.e)

(***************************************************************************)
(* Filter and Compiler (src/filter/compiler.rs).  Indices into nodes,      *)
(* values and regex are 0-based as in the source.  A parse result is       *)
(* [ok, i, f, v, span, msg]: on success the index of the next token, the   *)
(* filter built so far and the value returned; on failure the error        *)
(* (byte range, message).                                                  *)
(***************************************************************************)
\* Filter::empty
EmptyFilter ==
    [values |-> <<>>, regex |-> <<>>, nodes |-> <<>>, source |-> <<>>,
     start |-> 0]

POk(i, f, v) ==
    [ok |-> TRUE, i |-> i, f |-> f, v |-> v, span |-> <<0, 0>>, msg |-> ""]
PErr(span, msg) ==
    [ok |-> FALSE, i |-> 0, f |-> EmptyFilter, v |-> 0, span |-> span,
     msg |-> msg]
Span(t) == <<t.s, t.e>>

\* u32 addition as the release build computes it (wrapping).
U32Add(a, b) == (a + b) % (U32_MAX + 1)

\* str::trim_matches('"')
RECURSIVE TrimQuotes(_)
TrimQuotes(s) ==
    IF s # <<>> /\ Head(s) = "\"" THEN TrimQuotes(Tail(s))
    ELSE IF s # <<>> /\ s[Len(s)] = "\""
         THEN TrimQuotes(SubSeq(s, 1, Len(s) - 1))
    ELSE s

\* Regex::new(..).is_ok() (regex crate).  Exact for the patterns the model
\* types: letters, digits and blanks are literals; a group or class
\* delimiter or a leading repetition operator is taken as a syntax error.
RegexOk(p) ==
    /\ \A k \in 1..Len(p) : p[k] \notin {"(", ")", "[", "]", "{", "}"}
    /\ (p # <<>> => Head(p) \notin {"+", "*", "?"})

\* str::parse::<Decimal>().unwrap() of an Nb token: a signed integer.
DecimalVal(s) ==
    IF s # <<>> /\ Head(s) = "-" THEN 0 - DigitsVal(Tail(s), 0)
    ELSE IF s # <<>> /\ Head(s) = "+" THEN DigitsVal(Tail(s), 0)
    ELSE DigitsVal(s, 0)

\* Compiler::parse_range
ParseRange(src, toks, i, f) ==
    LET Build(t1, hasStart, start, sep, t3, hasEnd, end, i4, t4) ==
            IF hasStart /\ start = -1
            THEN PErr(Span(t1), "Expect range start")
            ELSE IF hasEnd /\ end = -1
                 THEN PErr(Span(t3), "Expect range end")
            ELSE IF t4.kind # "CloseRange" THEN PErr(Span(t4), "Expect ]")
            ELSE IF hasStart /\ sep = "none" /\ ~hasEnd
                 THEN POk(i4 + 1, f, <<start, U32Add(start, 1)>>)
            ELSE IF hasStart /\ sep = "len" /\ hasEnd
                 THEN POk(i4 + 1, f, <<start, U32Add(start, end)>>)
            ELSE IF hasStart /\ sep = "len" /\ ~hasEnd
                 THEN POk(i4 + 1, f, <<start, U32_MAX>>)
            ELSE IF ~hasStart /\ sep = "len" /\ hasEnd
                 THEN POk(i4 + 1, f, <<0, end>>)
            ELSE IF hasStart /\ sep = "end" /\ hasEnd /\ start <= end
                 THEN POk(i4 + 1, f, <<start, end>>)
            ELSE PErr(<<t1.s, t4.e>>, "Invalid range")
        Close(t1, hasStart, start, sep, t3, hasEnd, end, i4) ==
            Build(t1, hasStart, start, sep, t3, hasEnd, end, i4,
                  Tok(toks, i4))
        End(t1, hasStart, start, sep, i3, t3) ==
            Close(t1, hasStart, start, sep, t3, t3.kind = "Nb",
                  IF t3.kind = "Nb" THEN ParseU32(TokStr(src, t3)) ELSE -1,
                  IF t3.kind = "Nb" THEN i3 + 1 ELSE i3)
        AfterSep(t1, hasStart, start, sep, i3) ==
            End(t1, hasStart, start, sep, i3, Tok(toks, i3))
        Sep(t1, hasStart, start, i2, sep) ==
            AfterSep(t1, hasStart, start, sep,
                     IF sep # "none" THEN i2 + 1 ELSE i2)
        AfterStart(t1, hasStart, start, i2, t2) ==
            Sep(t1, hasStart, start, i2,
                CASE t2.kind = "SepRangeLen" -> "len"
                  [] t2.kind = "SepRangeEnd" -> "end"
                  [] OTHER -> "none")
        Start(t1, hasStart, i2) ==
            AfterStart(t1, hasStart,
                       IF hasStart THEN ParseU32(TokStr(src, t1)) ELSE -1,
                       i2, Tok(toks, i2))
        Open(t1) ==
            Start(t1, t1.kind = "Nb",
                  IF t1.kind = "Nb" THEN i + 2 ELSE i + 1)
    IN IF Tok(toks, i).kind # "OpenRange" THEN POk(i, f, <<0, U32_MAX>>)
       ELSE Open(Tok(toks, i + 1))

\* The closures Compiler::parse_regex and Compiler::parse_value hand to
\* list: each takes one token and yields an item or an error.
ParseItem(which, src, t) ==
    LET Regex(p) ==
            IF RegexOk(p) THEN POk(0, EmptyFilter, p)
            ELSE PErr(Span(t), "Invalid regex")
    IN IF which = "regex" THEN
           IF t.kind \in {"Str", "Id"}
           THEN Regex(TrimQuotes(TokStr(src, t)))
           ELSE PErr(Span(t), "Expect regex")
       ELSE
           IF t.kind = "Nb"
           THEN POk(0, EmptyFilter,
                    [kind |-> "Nb", nb |-> DecimalVal(TokStr(src, t)),
                     s |-> 0, e |-> 0])
           ELSE IF t.kind \in {"Str", "Id"}
           THEN POk(0, EmptyFilter,
                    [kind |-> "Str", nb |-> 0, s |-> t.s, e |-> t.e])
           ELSE PErr(Span(t), "Expect a value")

\* The `while lexer.take_kind(SepList)` loop of Compiler::list: the vector
\* after the loop, in v.
RECURSIVE ListLoop(_, _, _, _, _)
ListLoop(which, src, toks, i, vec) ==
    LET Item(item) ==
            IF item.ok
            THEN ListLoop(which, src, toks, i + 2, Append(vec, item.v))
            ELSE item
    IN IF Tok(toks, i).kind = "SepList"
       THEN Item(ParseItem(which, src, Tok(toks, i + 1)))
       ELSE POk(i, EmptyFilter, vec)

\* Compiler::list over the vector vec (filter.regex or filter.values):
\* v = [m, range, vec].
List(which, src, toks, i, vec) ==
    LET Build(t0, hasOp, is_list, rest, close) ==
            IF ~rest.ok THEN rest
            ELSE IF is_list /\ close.kind # "CloseList"
                 THEN PErr(Span(close), "Expect }")
            ELSE POk(IF is_list THEN rest.i + 1 ELSE rest.i, EmptyFilter,
                     [m |-> IF hasOp THEN t0.op ELSE "All",
                      range |-> <<Len(vec), Len(rest.v)>>,
                      vec |-> rest.v])
        Rest(t0, hasOp, is_list, rest) ==
            Build(t0, hasOp, is_list, rest, Tok(toks, rest.i))
        First(t0, hasOp, is_list, i2, first) ==
            IF ~first.ok THEN first
            ELSE Rest(t0, hasOp, is_list,
                      ListLoop(which, src, toks, i2 + 1,
                               Append(vec, first.v)))
        Items(t0, hasOp, is_list, i2) ==
            First(t0, hasOp, is_list, i2,
                  ParseItem(which, src, Tok(toks, i2)))
        Brace(t0, hasOp, i1, t1) ==
            IF t1.kind # "OpenList" /\ hasOp THEN PErr(Span(t1), "Expect {")
            ELSE Items(t0, hasOp, t1.kind = "OpenList",
                       IF t1.kind = "OpenList" THEN i1 + 1 ELSE i1)
        Op(t0, hasOp, i1) == Brace(t0, hasOp, i1, Tok(toks, i1))
        Begin(t0) ==
            Op(t0, t0.kind = "Match",
               IF t0.kind = "Match" THEN i + 1 ELSE i)
    IN Begin(Tok(toks, i))

\* Compiler::parse_col: v = <<column, <<start, end>>>>.
ParseCol(src, toks, i, f, nb_col) ==
    LET Ranged(nb, range) ==
            IF ~range.ok THEN range ELSE POk(range.i, f, <<nb, range.v>>)
        Col(t, nb) ==
            IF t.kind # "Nb" \/ nb = -1
            THEN PErr(Span(t), "Expect a column index")
            ELSE IF nb >= nb_col
                 THEN PErr(Span(t), "No column with this index")
            ELSE Ranged(nb, ParseRange(src, toks, i + 1, f))
        Begin(t) == Col(t, ParseU32(TokStr(src, t)))
    IN Begin(Tok(toks, i))

\* Compiler::add on filter.nodes: the filter with the node pushed.
AddNode(f, node) == [f EXCEPT !.nodes = Append(@, node)]

Node(kind, col, op, m, range, neg, lhs, rhs) ==
    [kind |-> kind, col |-> col, op |-> op, m |-> m, range |-> range,
     neg |-> neg, lhs |-> lhs, rhs |-> rhs]
NoCol == <<0, <<0, 0>>>>
NodeExist(col) == Node("Exist", col, "", "", <<0, 0>>, FALSE, 0, 0)
NodeCmp(col, op, m, range) == Node("Cmp", col, op, m, range, FALSE, 0, 0)
NodeMatch(col, m, range) == Node("Match", col, "", m, range, FALSE, 0, 0)
NodeUnary(neg, id) == Node("Unary", NoCol, "", "", <<0, 0>>, neg, id, 0)
\* Mutant of NodeBinary: the operator written is dropped, every Binary node
\* is an And.
NodeBinary_And(lhs, op, rhs) ==
    Node("Binary", NoCol, "And", "", <<0, 0>>, FALSE, lhs, rhs)

NodeBinary(lhs, op, rhs) ==
    Node("Binary", NoCol, op, "", <<0, 0>>, FALSE, lhs, rhs)

\* Compiler::parse_action: v = index of the node added.
ParseAction(src, toks, i, f, nb_col) ==
    LET Regs(col, regs) ==
            IF ~regs.ok THEN regs
            ELSE POk(regs.i,
                     AddNode([f EXCEPT !.regex = regs.v.vec],
                             NodeMatch(col.v, regs.v.m, regs.v.range)),
                     Len(f.nodes))
        Vals(col, t, vals) ==
            IF ~vals.ok THEN vals
            ELSE POk(vals.i,
                     AddNode([f EXCEPT !.values = vals.v.vec],
                             NodeCmp(col.v, t.op, vals.v.m, vals.v.range)),
                     Len(f.nodes))
        Act(col, t) ==
            IF t.kind = "Matches"
            THEN Regs(col, List("regex", src, toks, col.i + 1, f.regex))
            ELSE IF t.kind = "Cmp"
            THEN Vals(col, t, List("value", src, toks, col.i + 1, f.values))
            ELSE POk(col.i, AddNode(f, NodeExist(col.v)), Len(f.nodes))
        Begin(col) == IF ~col.ok THEN col ELSE Act(col, Tok(toks, col.i))
    IN Begin(ParseCol(src, toks, i, f, nb_col))

\* Compiler::parse_expr: v = index of the node added last (the root of the
\* expression parsed).
RECURSIVE ParseExpr(_, _, _, _, _)
ParseExpr(src, toks, i, f, nb_col) ==
    LET Not(sub) ==
            IF ~sub.ok THEN sub
            ELSE POk(sub.i, AddNode(sub.f, NodeUnary(TRUE, sub.v)),
                     Len(sub.f.nodes))
        Close(sub, close) ==
            IF close.kind # "CloseExpr" THEN PErr(Span(close), "Expect )")
            ELSE POk(sub.i + 1, AddNode(sub.f, NodeUnary(TRUE, sub.v)),
                     Len(sub.f.nodes))
        Paren(sub) ==
            IF ~sub.ok THEN sub ELSE Close(sub, Tok(toks, sub.i))
        Binary(lhs, nt, rhs) ==
            IF ~rhs.ok THEN rhs
            ELSE POk(rhs.i,
                     AddNode(rhs.f, NodeBinary(lhs.v, nt.op, rhs.v)),
                     Len(rhs.f.nodes))
        Logi(lhs, nt) ==
            IF nt.kind = "Logi"
            THEN Binary(lhs, nt,
                        ParseExpr(src, toks, lhs.i + 1, lhs.f, nb_col))
            ELSE IF nt.kind = "Eof"
            THEN POk(lhs.i, AddNode(lhs.f, NodeUnary(FALSE, lhs.v)),
                     Len(lhs.f.nodes))
            ELSE PErr(Span(nt), "Expect && or ||")
        Action(lhs) ==
            IF ~lhs.ok THEN lhs ELSE Logi(lhs, Tok(toks, lhs.i))
        Begin(t) ==
            IF t.kind = "Not"
            THEN Not(ParseExpr(src, toks, i + 1, f, nb_col))
            ELSE IF t.kind = "OpenExpr"
            THEN Paren(ParseExpr(src, toks, i + 1, f, nb_col))
            ELSE Action(ParseAction(src, toks, i, f, nb_col))
    IN Begin(Tok(toks, i))

\* Compiler::compile / Filter::new: [ok, f, span, msg].
Compile(src, nb_col) ==
    LET Done(r) ==
            IF ~r.ok THEN r
            ELSE POk(r.i, [r.f EXCEPT !.start = r.v, !.source = src], r.v)
        Begin(toks) ==
            IF toks[1].kind = "Eof"
            THEN POk(1, [EmptyFilter EXCEPT !.source = src], 0)
            ELSE Done(ParseExpr(src, toks, 1, EmptyFilter, nb_col))
    IN Begin(Tokenize(src, 0))

(***************************************************************************)
(* Records (src/reader.rs).  The file is a sequence of raw records; a raw  *)
(* record is the non-empty sequence of fields the decoder delimits on one  *)
(* line, a field a sequence of characters.                                 *)
(***************************************************************************)
\* Bytes NestedString::read_record reports for one record: the fields, the
\* delimiters between them and the line terminator.
Amount(raw) == SumSeq([k \in 1..Len(raw) |-> Len(raw[k])]) + Len(raw)

\* Mutant of ReadRecord: the record is kept as the decoder delimits it.
ReadRecord_Keep(raw) == raw

\* NestedString::read_record: the record held after the read, a trailing
\* empty field collapsed (bounds.len() > 2 and the last two bounds equal).
ReadRecord(raw) ==
    IF Len(raw) > 1 /\ raw[Len(raw)] = <<>>
    THEN SubSeq(raw, 1, Len(raw) - 1) ELSE raw

\* ByteSlice::trim
RECURSIVE Trim(_)
Trim(s) ==
    IF s # <<>> /\ IsWhitespace(Head(s)) THEN Trim(Tail(s))
    ELSE IF s # <<>> /\ IsWhitespace(s[Len(s)])
         THEN Trim(SubSeq(s, 1, Len(s) - 1))
    ELSE s

\* NestedString::get, None as the default (empty) slice.
RecordGet(record, idx) ==
    IF idx < Len(record) THEN Trim(record[idx + 1]) ELSE <<>>

(***************************************************************************)
(* Engine (src/filter/engine.rs).                                          *)
(***************************************************************************)
Ascii(c) ==
    CASE c = "\t" -> 9 [] c = " " -> 32 [] c = "!" -> 33 [] c = "\"" -> 34
      [] c = "&" -> 38 [] c = "(" -> 40 [] c = ")" -> 41 [] c = "+" -> 43
      [] c = "," -> 44 [] c = "-" -> 45 [] c \in Digits -> 48 + DigitVal(c)
      [] c = ":" -> 58 [] c = "<" -> 60 [] c = "=" -> 61 [] c = ">" -> 62
      [] c = "[" -> 91 [] c = "]" -> 93
      [] c = "a" -> 97 [] c = "b" -> 98 [] c = "c" -> 99 [] c = "d" -> 100
      [] c = "e" -> 101 [] c = "g" -> 103 [] c = "h" -> 104
      [] c = "l" -> 108 [] c = "m" -> 109 [] c = "n" -> 110
      [] c = "o" -> 111 [] c = "q" -> 113 [] c = "r" -> 114
      [] c = "s" -> 115 [] c = "t" -> 116 [] c = "y" -> 121
      [] c = "{" -> 123 [] c = "|" -> 124 [] c = "}" -> 125 [] c = "~" -> 126

\* Ordering of byte slices: -1, 0, 1 for a < b, a = b, a > b.
RECURSIVE BytesCmp(_, _)
BytesCmp(a, b) ==
    IF a = <<>> /\ b = <<>> THEN 0
    ELSE IF a = <<>> THEN -1
    ELSE IF b = <<>> THEN 1
    ELSE IF Ascii(Head(a)) < Ascii(Head(b)) THEN -1
    ELSE IF Ascii(Head(a)) > Ascii(Head(b)) THEN 1
    ELSE BytesCmp(Tail(a), Tail(b))

\* Engine::cmp on an ordering result (Ord of a against b).
CmpOrd(ord, op) ==
    CASE op = "Eq" -> ord = 0 [] op = "Ne" -> ord # 0
      [] op = "Gt" -> ord > 0 [] op = "Lt" -> ord < 0
      [] op = "Ge" -> ord >= 0 [] op = "Le" -> ord <= 0

IntOrd(a, b) == IF a < b THEN -1 ELSE IF a > b THEN 1 ELSE 0

\* Display of a decimal (in_place_str).
RECURSIVE NatStr(_)
NatStr(n) ==
    LET d == CHOOSE c \in Digits : DigitVal(c) = n % 10
    IN IF n < 10 THEN <<d>> ELSE Append(NatStr(n \div 10), d)
DecimalStr(nb) == IF nb < 0 THEN <<"-">> \o NatStr(0 - nb) ELSE NatStr(nb)

\* Engine::by_id for a compiler.rs column (index, (start, end)): the slice
\* of the field, both bounds clamped to the field's length.
ByCol(record, col) ==
    LET field == RecordGet(record, col[1])
    IN Slice(field, Min(col[2][1], Len(field)), Min(col[2][2], Len(field)))

\* Engine::check_action
CheckAction(f, str, op, value) ==
    IF value.kind = "Nb" THEN
        IF DecimalOk(str)
        THEN CmpOrd(IntOrd(DecimalVal(str), value.nb), op)
        ELSE CmpOrd(BytesCmp(str, DecimalStr(value.nb)), op)
    ELSE CmpOrd(BytesCmp(str, TrimQuotes(Slice(f.source, value.s, value.e))),
                op)

\* Mutant of Compare: one value passing the test is enough, whatever the
\* combiner.
Compare_Any(f, record, col, op, m, range) ==
    LET Over(str, values) ==
            \E k \in 1..Len(values) : CheckAction(f, str, op, values[k])
    IN Over(ByCol(record, col), Slice(f.values, range[1], range[2]))

\* Engine::compare
Compare(f, record, col, op, m, range) ==
    LET Over(str, values) ==
            IF m = "All"
            THEN \A k \in 1..Len(values) : CheckAction(f, str, op, values[k])
            ELSE \E k \in 1..Len(values) : CheckAction(f, str, op, values[k])
    IN Over(ByCol(record, col), Slice(f.values, range[1], range[2]))

\* Regex::is_match for a literal pattern: the pattern occurs in the text.
IsMatch(pat, str) ==
    \E k \in 0..(Len(str) - Len(pat)) : Slice(str, k, k + Len(pat)) = pat

\* Engine::per_match
PerMatch(f, record, col, m, range) ==
    LET Over(str, regs) ==
            IF m = "All"
            THEN \A k \in 1..Len(regs) : IsMatch(regs[k], str)
            ELSE \E k \in 1..Len(regs) : IsMatch(regs[k], str)
    IN Over(ByCol(record, col), Slice(f.regex, range[1], range[2]))

\* Engine::run_node (a Unary node keeps its child in lhs).
RECURSIVE RunNode(_, _, _)
RunNode(f, record, i) ==
    LET Run(n) ==
            CASE n.kind = "Exist" -> ByCol(record, n.col) # <<>>
              [] n.kind = "Cmp" ->
                    Compare(f, record, n.col, n.op, n.m, n.range)
              [] n.kind = "Match" ->
                    PerMatch(f, record, n.col, n.m, n.range)
              [] n.kind = "Unary" ->
                    IF n.neg THEN ~RunNode(f, record, n.lhs)
                    ELSE RunNode(f, record, n.lhs)
              [] n.kind = "Binary" ->
                    IF n.op = "And"
                    THEN RunNode(f, record, n.lhs)
                            /\ RunNode(f, record, n.rhs)
                    ELSE RunNode(f, record, n.lhs)
                            \/ RunNode(f, record, n.rhs)
    IN Run(f.nodes[i + 1])

\* Engine::check
Check(f, record) ==
    IF f.nodes = <<>> THEN TRUE ELSE RunNode(f, record, f.start)

(***************************************************************************)
(* Histogram (src/histogram.rs).  keys are the keys of the IndexMap         *)
(* `values` in insertion order and values[v + 1] is the count index stored *)
(* for the key of insertion index v; counts[i + 1] is the pair             *)
(* (value_idx, count) at position i of the Vec `counts`.                   *)
(***************************************************************************)
\* Histogram::new
HistogramNew == [keys |-> <<>>, values |-> <<>>, counts |-> <<>>]

\* IndexMap::get: the insertion index of a key of the map.
KeyIndex(h, value) ==
    CHOOSE v \in 0..(Len(h.keys) - 1) : h.keys[v + 1] = value

\* Mutant of SwapIdx: the entry moves up by one place only.
SwapIdx_Neighbour(counts, count_idx, count) == count_idx - 1

\* histogram.rs:48-52: one past the last position before count_idx whose
\* count is at least `count`, 0 when there is none.
SwapIdx(counts, count_idx, count) ==
    LET ge == {p \in 0..(count_idx - 1) : counts[p + 1].count >= count}
    IN IF ge = {} THEN 0
       ELSE (CHOOSE p \in ge : \A q \in ge : q <= p) + 1

\* Mutant of SwapCounts: the entry is moved to position k and the entries
\* from k on shift right by one.
SwapCounts_Rotate(counts, i, k) ==
    [j \in 1..Len(counts) |->
        IF j = k + 1 THEN counts[i + 1]
        ELSE IF j > k + 1 /\ j <= i + 1 THEN counts[j - 1]
        ELSE counts[j]]

\* Vec::swap
SwapCounts(counts, i, k) ==
    [counts EXCEPT ![i + 1] = counts[k + 1], ![k + 1] = counts[i + 1]]

\* Mutant of PatchValues: only the registered key's count index is patched.
PatchValues_One(values, counts, value_idx, count_idx, swap_idx) ==
    [values EXCEPT ![value_idx + 1] = swap_idx]

\* histogram.rs:55-60: the count indexes of the two keys whose entries were
\* swapped are rewritten, in this order.
PatchValues(values, counts, value_idx, count_idx, swap_idx) ==
    [[values EXCEPT ![value_idx + 1] = swap_idx]
        EXCEPT ![counts[count_idx + 1].value_idx + 1] = count_idx]

\* Histogram::register
Register(h, value) ==
    LET Moved(count_idx, value_idx, swap_idx, swapped) ==
            [h EXCEPT !.counts = swapped,
                      !.values = PatchValues(h.values, swapped, value_idx,
                                             count_idx, swap_idx)]
        Inc(count_idx, value_idx, count, counts) ==
            IF count_idx # 0 /\ counts[count_idx].count < count
            THEN Moved(count_idx, value_idx,
                       SwapIdx(counts, count_idx, count),
                       SwapCounts(counts, count_idx,
                                  SwapIdx(counts, count_idx, count)))
            ELSE [h EXCEPT !.counts = counts]
        Known(count_idx) ==
            Inc(count_idx, h.counts[count_idx + 1].value_idx,
                h.counts[count_idx + 1].count + 1,
                [h.counts EXCEPT ![count_idx + 1].count = @ + 1])
    IN IF \E v \in 1..Len(h.keys) : h.keys[v] = value
       THEN Known(h.values[KeyIndex(h, value) + 1])
       ELSE [keys |-> Append(h.keys, value),
             values |-> Append(h.values, Len(h.counts)),
             counts |-> Append(h.counts,
                               [value_idx |-> Len(h.keys), count |-> 1])]

(***************************************************************************)
(* Nav (src/main.rs:77-205; src/nav.rs is the same code with a local       *)
(* counter in place of v_col).                                             *)
(***************************************************************************)
\* Nav::new
NavNew ==
    [o_row |-> 0, o_col |-> 0, c_row |-> 0, c_col |-> 0,
     v_row |-> 0, v_col |-> 0, m_row |-> 0, m_col |-> 0]

\* Nav::up, down, left, right (saturating), full_up, full_down, full_left,
\* full_right.
NavMove(n, dir) ==
    CASE dir = "up" -> [n EXCEPT !.c_row = Max(@ - 1, 0)]
      [] dir = "down" -> [n EXCEPT !.c_row = @ + 1]
      [] dir = "left" -> [n EXCEPT !.c_col = Max(@ - 1, 0)]
      [] dir = "right" -> [n EXCEPT !.c_col = @ + 1]
      [] dir = "full_up" -> [n EXCEPT !.c_row = 0]
      [] dir = "full_down" -> [n EXCEPT !.c_row = n.m_row]
      [] dir = "full_left" -> [n EXCEPT !.c_col = 0]
      [] dir = "full_right" -> [n EXCEPT !.c_col = n.m_col]

\* Nav::go_to
GoTo(n, row, col) == [n EXCEPT !.c_row = row, !.c_col = col]

\* Mutant of RowOrigin: the origin follows the cursor on every call.
RowOrigin_Follow(n) == n.c_row

\* Mutant of RowOrigin: the origin never moves up to the cursor.
RowOrigin_NoScrollUp(n) ==
    IF n.c_row >= n.o_row + n.v_row THEN n.c_row - n.v_row + 1
    ELSE n.o_row

\* main.rs:146-150: the origin that keeps the (clamped) cursor in view.
RowOrigin(n) ==
    IF n.c_row < n.o_row THEN n.c_row
    ELSE IF n.c_row >= n.o_row + n.v_row THEN n.c_row - n.v_row + 1
    ELSE n.o_row

\* Nav::row_offset: the Nav after the call and the value returned.
RowOffset(n, total, nb) ==
    LET Place(c) == [c EXCEPT !.o_row = RowOrigin(c)]
        Ret(r) == [nav |-> r, ret |-> r.o_row]
    IN Ret(Place([n EXCEPT !.m_row = Max(total - 1, 0),
                           !.v_row = nb,
                           !.c_row = Min(n.c_row, Max(total - 1, 0))]))

\* Mutant of ColOff: the columns are offered from the previous origin
\* rightwards.
ColOff_FromGoal(n, goal_l) ==
    IF goal_l + n.v_col <= n.m_col THEN goal_l + n.v_col
    ELSE IF n.v_col <= n.m_col THEN n.m_col - n.v_col
    ELSE -1

\* Mutant of ColOff: the fill to the right stops one column short of the
\* last one.
ColOff_ShortRight(n, goal_l) ==
    IF goal_l + n.v_col <= n.c_col THEN n.c_col - n.v_col
    ELSE IF goal_l + n.v_col < n.m_col THEN goal_l + n.v_col
    ELSE IF n.v_col <= n.m_col THEN n.m_col - n.v_col
    ELSE -1

\* main.rs:168-180: the next column offered to fit, -1 when none is left.
ColOff(n, goal_l) ==
    IF goal_l + n.v_col <= n.c_col THEN n.c_col - n.v_col
    ELSE IF goal_l + n.v_col <= n.m_col THEN goal_l + n.v_col
    ELSE IF n.v_col <= n.m_col THEN n.m_col - n.v_col
    ELSE -1

\* Mutant of ColOrigin: the origin stays on the cursor column.
ColOrigin_Keep(n, off, goal_l, is_fitting) == n.o_col

\* Mutant of ColOrigin: the origin shrinks to every column offered, fitting
\* or not.
ColOrigin_Offered(n, off, goal_l, is_fitting) == Min(n.o_col, off)

\* main.rs:183-185: the origin after column off was offered to fit.
ColOrigin(n, off, goal_l, is_fitting) ==
    IF is_fitting \/ off >= goal_l THEN Min(n.o_col, off) ELSE n.o_col

\* The loop of Nav::col_iter (main.rs:167-189).  fit is the set of columns
\* the callback accepts (no column is offered twice); yielded is the
\* sequence of columns offered so far.
RECURSIVE ColLoop(_, _, _, _)
ColLoop(n, goal_l, fit, yielded) ==
    LET Offer(off) ==
            IF off = -1 THEN [nav |-> n, yielded |-> yielded]
            ELSE IF off \in fit
                 THEN ColLoop([n EXCEPT !.v_col = @ + 1,
                                        !.o_col = ColOrigin(n, off, goal_l,
                                                            TRUE)],
                              goal_l, fit, Append(yielded, off))
            ELSE [nav |-> [n EXCEPT !.v_col = @ + 1,
                                    !.o_col = ColOrigin(n, off, goal_l,
                                                        FALSE)],
                  yielded |-> Append(yielded, off)]
    IN Offer(ColOff(n, goal_l))

\* Nav::col_iter: the Nav after the call and the columns passed to fit, in
\* order.
ColIter(n, total, fit) ==
    LET Start(c, goal_l) ==
            IF total > 0
            THEN ColLoop([c EXCEPT !.v_col = 0, !.o_col = c.c_col],
                         goal_l, fit, <<>>)
            ELSE [nav |-> [c EXCEPT !.v_col = 0, !.o_col = c.c_col],
                  yielded |-> <<>>]
        Clamped(c) == Start(c, Min(c.o_col, c.c_col))
    IN Clamped([n EXCEPT !.m_col = Max(total - 1, 0),
                         !.c_col = Min(n.c_col, Max(total - 1, 0))])

(***************************************************************************)
(* Cols (src/main.rs:207-340; src/cols.rs is the same code).  map is the   *)
(* Vec of source columns in display order, size[off + 1] the pair          *)
(* (size, constraint) of source column off.                                *)
(***************************************************************************)
\* Largest column width, and largest content width reported to Cols::size.
MaxSize == 2
\* Width a Constrained column is capped to: `size.min(25)` in main.rs:312,
\* scaled down with MaxSize.
ConstrainedCap == 1

\* Cols::new
ColsNew == [map |-> <<>>, size |-> <<>>, nb_col |-> 0, max_col |-> 0]

\* Vec::resize(nb_col, (0, Constraint::Constrained)) of a shorter Vec.
ResizeTo(size, nb_col) ==
    [i \in 1..nb_col |->
        IF i <= Len(size) THEN size[i]
        ELSE [len |-> 0, kind |-> "Constrained", val |-> 0]]

\* Mutant of NewCols: every column of the count is pushed.
NewCols_All(max_col, nb_col) == [i \in 1..nb_col |-> i - 1]

\* Mutant of NewCols: the unseen columns are pushed from the last one down.
NewCols_Descending(max_col, nb_col) ==
    [i \in 1..Max(nb_col - max_col, 0) |-> nb_col - i]

\* main.rs:250-252: the columns max_col..nb_col, pushed to map.
NewCols(max_col, nb_col) ==
    [i \in 1..Max(nb_col - max_col, 0) |-> max_col + i - 1]

\* Cols::set_nb_cols
SetNbCols(c, nb_col) ==
    [c EXCEPT !.size = IF nb_col > Len(c.size) THEN ResizeTo(c.size, nb_col)
                       ELSE c.size,
              !.map = c.map \o NewCols(c.max_col, nb_col),
              !.nb_col = nb_col,
              !.max_col = Max(c.max_col, nb_col)]

\* Cols::visible_cols
VisibleCols(c) == Len(c.map)

\* Vec::remove
RemoveAt(seq, idx) ==
    SubSeq(seq, 1, idx) \o SubSeq(seq, idx + 2, Len(seq))

\* Cols::cmd
ColsCmd(c, idx, cmd) ==
    IF VisibleCols(c) = 0 THEN c
    ELSE CASE cmd = "Hide" -> [c EXCEPT !.map = RemoveAt(c.map, idx)]
           [] cmd = "Left" ->
                  [c EXCEPT !.map = SwapCounts(c.map, idx, Max(idx - 1, 0))]
           [] cmd = "Right" ->
                  IF idx < Len(c.map) - 1
                  THEN [c EXCEPT !.map = SwapCounts(c.map, idx, idx + 1)]
                  ELSE c

\* Cols::cmd indexes map at idx: a position past the end panics (Right
\* tests it first).
ColsCmdPanics(c, idx, cmd) ==
    /\ VisibleCols(c) # 0
    /\ cmd \in {"Hide", "Left"}
    /\ idx >= Len(c.map)

\* Cols::get_size
GetSize(c, idx) ==
    LET Of(e) ==
            CASE e.kind = "Constrained" -> Min(e.len, ConstrainedCap)
              [] e.kind = "Full" -> e.len
              [] e.kind = "Defined" -> e.val
    IN Of(c.size[c.map[idx + 1] + 1])

\* Cols::size: the Cols after the call (the value returned is
\* GetSize of it).
Size(c, idx, len) ==
    [c EXCEPT !.size[c.map[idx + 1] + 1].len = Max(@, len)]

\* Cols::size and Cols::get_size index map at idx and size at the source
\* column found there: out of bounds they panic.
SizePanics(c, idx) ==
    \/ idx >= Len(c.map)
    \/ c.map[idx + 1] >= Len(c.size)

\* Cols::reset_size
ResetSize(c) == [c EXCEPT !.size = <<>>]

\* Cols::fit
Fit(c) == [c EXCEPT !.size = [i \in 1..Len(c.size) |->
                                  [c.size[i] EXCEPT !.len = 0]]]

\* Cols::size_cmd
SizeCmd(c, idx, cmd) ==
    IF VisibleCols(c) = 0 THEN c
    ELSE [c EXCEPT !.size[c.map[idx + 1] + 1] =
            CASE cmd = "Constrain" -> [@ EXCEPT !.kind = "Constrained"]
              [] cmd = "Full" -> [@ EXCEPT !.kind = "Full"]
              [] cmd = "Less" ->
                     [@ EXCEPT !.kind = "Defined",
                               !.val = Max(GetSize(c, idx) - 1, 0)]
              [] cmd = "More" ->
                     [@ EXCEPT !.kind = "Defined",
                               !.val = GetSize(c, idx) + 1]]

\* Cols::size_cmd panics as Cols::size does, unless no column is visible.
SizeCmdPanics(c, idx) == VisibleCols(c) # 0 /\ SizePanics(c, idx)

(***************************************************************************)
(* Navigator (src/ui.rs:18-93): the goto prompt.  buff is the text of its  *)
(* LineBuffer and ip the insertion point, nav its copy of the Nav and from *)
(* the cursor position it was created with.                                *)
(***************************************************************************)
\* Navigator::new
NavigatorNew(nav) ==
    [buff |-> <<>>, ip |-> 0, nav |-> nav, from |-> <<nav.c_row, nav.c_col>>]

\* Value of a string of digits.
RECURSIVE UsizeVal(_, _)
UsizeVal(s, acc) ==
    IF s = <<>> THEN acc ELSE UsizeVal(Tail(s), acc * 10 + DigitVal(Head(s)))

\* str::parse::<usize>: an optional '+', then digits; -1 for Err.  (The
\* texts of the model are too short to overflow a usize.)
ParseUsize(s) ==
    LET Body(b) == IF AllDigits(b) THEN UsizeVal(b, 0) ELSE -1
    IN Body(IF s # <<>> /\ Head(s) = "+" THEN Tail(s) ELSE s)

\* str::split_once(':').unwrap_or((buff, "")): the texts before and after
\* the first ':'.
SplitOnce(buff) ==
    LET At(ps) ==
            IF ps = {} THEN <<buff, <<>>>>
            ELSE LET p == CHOOSE q \in ps : \A r \in ps : q <= r
                 IN <<SubSeq(buff, 1, p - 1), SubSeq(buff, p + 1, Len(buff))>>
    IN At({p \in 1..Len(buff) : buff[p] = ":"})

\* ui.rs:69-78: the position the text stands for, 1-based in the text; a
\* part that does not parse stands for the coordinate of `from`.
TypedPos(buff, from) ==
    LET Coord(nb, dflt) == IF nb = -1 THEN dflt ELSE Max(nb - 1, 0)
    IN <<Coord(ParseUsize(SplitOnce(buff)[1]), from[1]),
         Coord(ParseUsize(SplitOnce(buff)[2]), from[2])>>

\* The keys Navigator::on_key matches as KeyCode::Char.
GotoChars == {"2", ":"}
IsCharKey(code) == code \in GotoChars \cup {"h", "j", "k", "l"}

\* Navigator::on_key: the Navigator after the key, and whether Some(nav)
\* was returned.
NavigatorOnKey(g, code) ==
    LET Some(h) == [g |-> h, some |-> TRUE]
        None(h) == [g |-> h, some |-> FALSE]
        Typed(b) ==
            None([g EXCEPT !.buff = b, !.ip = g.ip + 1,
                           !.nav = GoTo(g.nav, TypedPos(b, g.from)[1],
                                        TypedPos(b, g.from)[2])])
        Edit ==
            IF IsCharKey(code)
            THEN Typed(SubSeq(g.buff, 1, g.ip) \o <<code>>
                           \o SubSeq(g.buff, g.ip + 1, Len(g.buff)))
            ELSE IF code = "Left" THEN None([g EXCEPT !.ip = Max(@ - 1, 0)])
            ELSE IF code = "Right"
                 THEN None([g EXCEPT !.ip = Min(@ + 1, Len(g.buff))])
            ELSE IF code = "Backspace"
                 THEN None(IF g.ip = 0 THEN g
                           ELSE [g EXCEPT
                                   !.buff = SubSeq(g.buff, 1, g.ip - 1)
                                               \o SubSeq(g.buff, g.ip + 1,
                                                         Len(g.buff)),
                                   !.ip = g.ip - 1])
            ELSE IF code = "Enter" THEN Some(g)
            ELSE IF code = "Esc"
                 THEN Some([g EXCEPT !.nav = GoTo(g.nav, g.from[1],
                                                  g.from[2])])
            ELSE None(g)
    IN IF g.buff = <<>>
       THEN IF code \in {"Left", "h"}
            THEN Some([g EXCEPT !.nav = NavMove(g.nav, "full_left")])
            ELSE IF code \in {"Down", "j"}
                 THEN Some([g EXCEPT !.nav = NavMove(g.nav, "full_down")])
            ELSE IF code \in {"Up", "k"}
                 THEN Some([g EXCEPT !.nav = NavMove(g.nav, "full_up")])
            ELSE IF code \in {"Right", "l"}
                 THEN Some([g EXCEPT !.nav = NavMove(g.nav, "full_right")])
            ELSE IF code \in {"Enter", "Esc"} THEN Some(g)
            ELSE Edit
       ELSE Edit

(***************************************************************************)
(* Source sniffing (src/source.rs:119-191; src/read/config.rs holds the    *)
(* same two functions).                                                    *)
(***************************************************************************)
\* source.rs:121
DELIMITER == <<",", ";", ":", "|", "_">>

\* source.rs:124-140: the bytes read before the first '\n' or the end of
\* the file.
RECURSIVE FirstLine(_)
FirstLine(text) ==
    IF text = <<>> \/ Head(text) = "\n" THEN <<>>
    ELSE <<Head(text)>> \o FirstLine(Tail(text))

\* source.rs:134-136: counter[i] after the loop, the occurrences of
\* DELIMITER[i] on the first line.
Counter(line) ==
    [i \in 1..Len(DELIMITER) |->
        Cardinality({k \in 1..Len(line) : line[k] = DELIMITER[i]})]

\* Iterator::max_by_key: the position of the maximum; of several equal
\* maxima the last one is returned.
MaxByKey(counter) ==
    CHOOSE i \in 1..Len(counter) :
        /\ \A j \in 1..Len(counter) : counter[j] <= counter[i]
        /\ \A j \in (i + 1)..Len(counter) : counter[j] < counter[i]

\* sniff_delimiter
SniffDelimiter(text) == DELIMITER[MaxByKey(Counter(FirstLine(text)))]

\* Ty::guess (fmt.rs:59-80) of a field without '.': Str, Bool(b) or
\* Nb { nb, lhs, rhs } with lhs the length of the rendered number and
\* rhs = 0.
Guess(field) ==
    LET Of(s) ==
            IF s = <<>> THEN [ty |-> "Str"]
            ELSE IF DecimalOk(s)
                 THEN [ty |-> "Nb", nb |-> DecimalVal(s),
                       lhs |-> Len(DecimalStr(DecimalVal(s))), rhs |-> 0]
            ELSE IF s \in {<<"t", "r", "u", "e">>, <<"T", "r", "u", "e">>,
                           <<"T", "R", "U", "E">>}
                 THEN [ty |-> "Bool", b |-> TRUE]
            ELSE IF s \in {<<"f", "a", "l", "s", "e">>,
                           <<"F", "a", "l", "s", "e">>,
                           <<"F", "A", "L", "S", "E">>}
                 THEN [ty |-> "Bool", b |-> FALSE]
            ELSE [ty |-> "Str"]
    IN Of(Trim(field))

\* Ty::is_str
IsStr(ty) == ty.ty = "Str"

\* NestedString::iter: the fields of a record, trimmed.
RecordIter(record) == [k \in 1..Len(record) |-> Trim(record[k])]

\* source.rs:156-167: TRUE when the loop over the first record returns
\* Ok(false), a second empty field being found.
TwoEmpty(fields) ==
    \E i, j \in 1..Len(fields) : i < j /\ fields[i] = <<>> /\ fields[j] = <<>>

\* source.rs:172-182: the loop over the second record from field i on.
\* The result is [panics, ret]: `tys[i]` panics past the end of tys.
RECURSIVE SecondLoop(_, _, _, _, _)
SecondLoop(tys, all_str, fields, i, all_same) ==
    IF i > Len(fields)
    THEN \* source.rs:185-190: both returns are Ok(false).
         [panics |-> FALSE,
          ret |-> IF all_same /\ ~all_str THEN FALSE ELSE FALSE]
    ELSE IF all_str /\ ~IsStr(Guess(fields[i]))
         THEN [panics |-> FALSE, ret |-> TRUE]
    ELSE IF i > Len(tys) THEN [panics |-> TRUE, ret |-> FALSE]
    ELSE SecondLoop(tys, all_str, fields, i + 1,
                    all_same /\ Guess(fields[i]) = tys[i])

\* sniff_has_header on a file whose first two records are h and r1 (an
\* empty record when the file has ended).
SniffHasHeader(h, r1) ==
    LET Second(tys) ==
            SecondLoop(tys, \A k \in 1..Len(tys) : IsStr(tys[k]),
                       RecordIter(r1), 1, TRUE)
        First(fields) ==
            IF TwoEmpty(fields) THEN [panics |-> FALSE, ret |-> FALSE]
            ELSE Second([k \in 1..Len(fields) |-> Guess(fields[k])])
    IN First(RecordIter(h))

\* The tokens of a range as the compiler's lexer hands them out.  The
\* lexer of compiler.rs distinguishes TokenKind::SepRangeLen from
\* TokenKind::SepRangeEnd; inside a range '~' is the length separator and
\* ':' the end separator.
RangeTokenize(src) ==
    LET Lexed(toks) ==
            [k \in 1..Len(toks) |->
                IF toks[k].kind = "Matches" /\ TokStr(src, toks[k]) = <<"~">>
                THEN [toks[k] EXCEPT !.kind = "SepRangeLen"]
                ELSE toks[k]]
    IN Lexed(Tokenize(src, 0))

(***************************************************************************)
(* Highlighter (src/filter/compiler.rs:50-187).  styles is the Vec of      *)
(* break-points <<position, style>>; a pass over the tokens carries        *)
(* [i, styles]: the index of the next token and the break-points so far.   *)
(***************************************************************************)
\* Mutant of HlAdd: the start of the range is pushed even when the last
\* break-point already stands there.
HlAdd_Push(styles, s, e, style) ==
    Append(Append(styles, <<s, style>>), <<e, "None">>)

\* Highlighter::add
HlAdd(styles, s, e, style) ==
    LET End(st) == Append(st, <<e, "None">>)
    IN End(IF styles[Len(styles)][1] = s
           THEN [styles EXCEPT ![Len(styles)] = <<s, style>>]
           ELSE Append(styles, <<s, style>>))

\* `if let Some(token) = lexer.take_kind(kind) { self.add(token.span, style) }`
HlTake(toks, h, kind, style) ==
    IF Tok(toks, h.i).kind = kind
    THEN [i |-> h.i + 1,
          styles |-> HlAdd(h.styles, Tok(toks, h.i).s, Tok(toks, h.i).e,
                           style)]
    ELSE h

\* lexer.take_kind(kind) with the token dropped.
HlSkip(toks, h, kind) ==
    IF Tok(toks, h.i).kind = kind THEN [h EXCEPT !.i = @ + 1] ELSE h

\* Highlighter::parse_range
HlParseRange(toks, h) ==
    IF Tok(toks, h.i).kind # "OpenRange" THEN h
    ELSE HlTake(toks,
             HlTake(toks,
                 HlTake(toks,
                     HlTake(toks, HlTake(toks, h, "OpenRange", "Id"),
                            "Nb", "Id"),
                     "SepRangeLen", "Id"),
                 "Nb", "Id"),
             "CloseRange", "Id")

\* The closures of Highlighter::parse_regex and Highlighter::parse_value.
HlItem(which, toks, h) ==
    IF which = "regex" THEN HlTake(toks, h, "Str", "Regex")
    ELSE IF Tok(toks, h.i).kind = "Nb" THEN HlTake(toks, h, "Nb", "Nb")
    ELSE IF Tok(toks, h.i).kind \in {"Str", "Id"}
         THEN HlTake(toks, h, Tok(toks, h.i).kind, "Str")
    ELSE [h EXCEPT !.i = @ + 1]

\* The `while lexer.take_kind(SepList)` loop of Highlighter::list.
RECURSIVE HlListLoop(_, _, _)
HlListLoop(which, toks, h) ==
    IF Tok(toks, h.i).kind = "SepList"
    THEN HlListLoop(which, toks,
                    HlItem(which, toks, [h EXCEPT !.i = @ + 1]))
    ELSE h

\* Highlighter::list (the list is closed with take_kind(OpenList), as in
\* the source).
HlList(which, toks, h) ==
    HlSkip(toks,
           HlListLoop(which, toks,
               HlItem(which, toks,
                      HlSkip(toks, HlSkip(toks, h, "Match"), "OpenList"))),
           "OpenList")

\* Highlighter::parse_action
HlParseAction(toks, h) ==
    LET Act(r) ==
            IF Tok(toks, r.i).kind = "Matches"
            THEN HlList("regex", toks, HlTake(toks, r, "Matches", "Action"))
            ELSE IF Tok(toks, r.i).kind = "Cmp"
            THEN HlList("value", toks, HlTake(toks, r, "Cmp", "Action"))
            ELSE r
    IN Act(HlParseRange(toks,
               IF Tok(toks, h.i).kind = "Nb" THEN HlTake(toks, h, "Nb", "Id")
               ELSE [h EXCEPT !.i = @ + 1]))

\* Highlighter::parse_expr
RECURSIVE HlParseExpr(_, _)
HlParseExpr(toks, h) ==
    LET After(a) ==
            IF Tok(toks, a.i).kind = "Logi"
            THEN HlParseExpr(toks, HlTake(toks, a, "Logi", "Logi"))
            ELSE IF Tok(toks, a.i).kind = "Eof"
            THEN HlTake(toks, a, "Eof", "None")
            ELSE HlParseExpr(toks, [a EXCEPT !.i = @ + 1])
    IN IF Tok(toks, h.i).kind = "Not"
       THEN HlParseExpr(toks, [h EXCEPT !.i = @ + 1])
       ELSE IF Tok(toks, h.i).kind = "OpenExpr"
       THEN HlSkip(toks, HlParseExpr(toks, [h EXCEPT !.i = @ + 1]),
                   "CloseExpr")
       ELSE After(HlParseAction(toks, h))

\* Highlighter::new: the break-points of source.
HighlighterNew(source) ==
    HlParseExpr(Tokenize(source, 0),
                [i |-> 1, styles |-> <<<<0, "None">>>>]).styles

\* csv_core::Reader::read_record on one line of text without quotes, the
\* delimiter being ',': the fields the decoder delimits.  An empty line
\* holds no record (the decoder skips it and reports End with no field).
RECURSIVE SplitFields(_, _)
SplitFields(text, field) ==
    IF text = <<>> THEN <<field>>
    ELSE IF Head(text) = "," THEN <<field>> \o SplitFields(Tail(text), <<>>)
    ELSE SplitFields(Tail(text), Append(field, Head(text)))
Decode(text) == IF text = <<>> THEN <<>> ELSE SplitFields(text, <<>>)

(***************************************************************************)
(* The rows App::draw draws and the cursor row among them (src/main.rs).   *)
(***************************************************************************)
\* main.rs:524-527: the rows of the grid after read_rows, one for each
\* offset get_offsets(row_off..row_off + nb) finds in a vector of nb_row
\* entries.
DrawnRows(nb_row, row_off, nb) ==
    Max(Min(row_off + nb, nb_row) - row_off, 0)

\* Nav::cursor_row, `self.c_row - self.o_row` in usize: the difference, and
\* whether the subtraction underflows.
CursorRow(n) == n.c_row - n.o_row
CursorRowUnderflows(n) == n.c_row < n.o_row

\* main.rs:639-640: draw evaluates cursor_row() once for every row drawn.
DrawRowsUnderflows(n, nb_row, nb) ==
    DrawnRows(nb_row, n.o_row, nb) > 0 /\ CursorRowUnderflows(n)

\* engine.rs:44, `&field[start.min(len)..end.min(len)]`: slicing panics when
\* the clamped start is past the clamped end.
SlicePanics(field, start, end) ==
    Min(start, Len(field)) > Min(end, Len(field))

(***************************************************************************)
(* State.                                                                  *)
(***************************************************************************)
VARIABLES
    file,        \* the source file: its raw records, in order
    has_header,  \* Config.has_header / Source.has_header
    runs,        \* the Indexer runs started so far, in spawn order: the
                 \* shared State, the handles on it and the worker's locals
    fg,          \* what the foreground last read from its Indexer
    app,         \* the App (src/main.rs) and the main loop's locals
    histogram    \* a Histogram (src/histogram.rs)

vars == <<file, has_header, runs, fg, app, histogram>>

(***************************************************************************)
(* Indexer (src/index.rs).                                                 *)
(***************************************************************************)
\* Indexer::index: the State built by the constructor (index, headers,
\* filter, file_len, nb_col, nb_read), the foreground handle (held), and
\* the locals of the worker it spawns, which is about to enter bg_index's
\* loop.  since_drop counts the records the worker reads once the
\* foreground handle is gone.
NewRun(f, filter, header) ==
    LET headers == IF header /\ f # <<>> THEN ReadRecord(f[1]) ELSE <<>>
        start == IF header /\ f # <<>> THEN Amount(f[1]) ELSE 0
    IN [index |-> <<>>,
        headers |-> headers,
        filter |-> filter,
        file_len |-> SumSeq([k \in 1..Len(f) |-> Amount(f[k])]),
        nb_col |-> Len(headers),
        nb_read |-> start,
        held |-> TRUE,
        pc |-> "read",
        exit |-> "",
        rd |-> IF header /\ f # <<>> THEN 1 ELSE 0,
        record |-> <<>>,
        amount |-> 0,
        buff_pos |-> <<>>,
        pos |-> start,
        max_col |-> Len(headers),
        count |-> 0,
        since_drop |-> 0]

Alive(r) == r.pc # "done"

\* Arc::strong_count(&state): the foreground handle and the worker's clone.
StrongCount(r) == (IF r.held THEN 1 ELSE 0) + (IF Alive(r) THEN 1 ELSE 0)

\* Mutant of IsLoading: counts the caller's own handle as a worker.
IsLoading_Any(r) == StrongCount(r) >= 1

\* Indexer::is_loading
IsLoading(r) == StrongCount(r) > 1
\* Indexer::nb_row
NbRow(r) == Len(r.index)
\* Indexer::nb_col
NbCol(r) == r.nb_col
\* Indexer::get_offsets for rows lo..hi: map_while stops at the first row
\* past the end of the vector.
GetOffsets(r, lo, hi) ==
    IF lo >= Len(r.index) THEN <<>>
    ELSE Slice(r.index, lo, Min(hi, Len(r.index)))
\* Indexer::progress, the u64 quotient cast to u8.
Progress(r) == ((r.nb_read * 100) \div Max(r.file_len, 1)) % 256

\* bg_index, `rdr.record(&mut record)?` returning Ok: the next record is
\* read and the filter evaluated, or the reader is at end of file and the
\* worker leaves the loop, dropping its clone of the state.
WRead(w) ==
    LET r == runs[w]
        rec == ReadRecord(file[r.rd + 1])
    IN /\ r.pc = "read"
       /\ IF r.rd < Len(file)
          THEN runs' = [runs EXCEPT ![w] =
                   [r EXCEPT !.rd = @ + 1,
                             !.record = rec,
                             !.amount = Amount(file[r.rd + 1]),
                             !.since_drop = IF r.held THEN @ ELSE @ + 1,
                             !.pc = IF Check(r.filter, rec)
                                    THEN "push" ELSE "advance"]]
          ELSE runs' = [runs EXCEPT ![w] =
                   [r EXCEPT !.amount = 0, !.pc = "done", !.exit = "eof"]]
       /\ UNCHANGED <<histogram, file, has_header, fg, app>>

\* bg_index, `rdr.record(&mut record)?` returning Err: the worker returns
\* the error and drops its clone of the state.
WReadErr(w) ==
    /\ runs[w].pc = "read"
    /\ runs' = [runs EXCEPT ![w].pc = "done", ![w].exit = "error"]
    /\ UNCHANGED <<histogram, file, has_header, fg, app>>

\* Mutant of WPush: the entry is inserted at the head of the vector.
WPush_Front(w) ==
    LET r == runs[w]
    IN /\ r.pc = "push"
       /\ runs' = [runs EXCEPT ![w] =
                [r EXCEPT !.index = <<<<r.count, r.pos>>>> \o @,
                          !.pc = "advance"]]
       /\ UNCHANGED <<histogram, file, has_header, fg, app>>

\* Mutant of WPush: the entry goes to the worker's local batch, which only
\* the throttling block flushes.
WPush_Batch(w) ==
    LET r == runs[w]
    IN /\ r.pc = "push"
       /\ runs' = [runs EXCEPT ![w] =
                [r EXCEPT !.buff_pos = Append(@, <<r.count, r.pos>>),
                          !.pc = "advance"]]
       /\ UNCHANGED <<histogram, file, has_header, fg, app>>

\* bg_index, index.rs:68: state.index.lock().push((count, pos)).
WPush(w) ==
    LET r == runs[w]
    IN /\ r.pc = "push"
       /\ runs' = [runs EXCEPT ![w] =
                [r EXCEPT !.index = Append(@, <<r.count, r.pos>>),
                          !.pc = "advance"]]
       /\ UNCHANGED <<histogram, file, has_header, fg, app>>

\* bg_index, index.rs:71-76: the locals advance; every N records the worker
\* goes through the throttling block.
WAdvance(w) ==
    LET r == runs[w]
    IN /\ r.pc = "advance"
       /\ runs' = [runs EXCEPT ![w] =
                [r EXCEPT !.pos = @ + r.amount,
                          !.count = @ + 1,
                          !.max_col = Max(@, Len(r.record)),
                          !.pc = IF (r.count + 1) % N = 0
                                 THEN "check" ELSE "read"]]
       /\ UNCHANGED <<histogram, file, has_header, fg, app>>

\* Mutant of WCheck: the cancellation test compares the count with 0.
WCheck_Never(w) ==
    LET r == runs[w]
    IN /\ r.pc = "check"
       /\ runs' = [runs EXCEPT ![w] =
                IF StrongCount(r) = 0
                THEN [r EXCEPT !.pc = "done", !.exit = "cancel"]
                ELSE [r EXCEPT !.pc = "flush"]]
       /\ UNCHANGED <<histogram, file, has_header, fg, app>>

\* bg_index, index.rs:78: a unique Arc means the run is cancelled.
WCheck(w) ==
    LET r == runs[w]
    IN /\ r.pc = "check"
       /\ runs' = [runs EXCEPT ![w] =
                IF StrongCount(r) = 1
                THEN [r EXCEPT !.pc = "done", !.exit = "cancel"]
                ELSE [r EXCEPT !.pc = "flush"]]
       /\ UNCHANGED <<histogram, file, has_header, fg, app>>

\* Mutant of WFlush: the batch replaces the shared vector.
WFlush_Replace(w) ==
    LET r == runs[w]
    IN /\ r.pc = "flush"
       /\ runs' = [runs EXCEPT ![w] =
                [r EXCEPT !.index = r.buff_pos,
                          !.buff_pos = <<>>,
                          !.pc = "store_col"]]
       /\ UNCHANGED <<histogram, file, has_header, fg, app>>

\* bg_index, index.rs:81-83: the local batch is appended under the lock.
WFlush(w) ==
    LET r == runs[w]
    IN /\ r.pc = "flush"
       /\ runs' = [runs EXCEPT ![w] =
                IF r.buff_pos # <<>>
                THEN [r EXCEPT !.index = @ \o r.buff_pos,
                               !.buff_pos = <<>>,
                               !.pc = "store_col"]
                ELSE [r EXCEPT !.pc = "store_col"]]
       /\ UNCHANGED <<histogram, file, has_header, fg, app>>

\* bg_index, index.rs:84: state.nb_col.store(max_col).
WStoreCol(w) ==
    LET r == runs[w]
    IN /\ r.pc = "store_col"
       /\ runs' = [runs EXCEPT ![w] =
                [r EXCEPT !.nb_col = r.max_col, !.pc = "store_read"]]
       /\ UNCHANGED <<histogram, file, has_header, fg, app>>

\* Mutant of WStoreRead: the size of the last record is stored.
WStoreRead_Amount(w) ==
    LET r == runs[w]
    IN /\ r.pc = "store_read"
       /\ runs' = [runs EXCEPT ![w] =
                [r EXCEPT !.nb_read = r.amount, !.pc = "read"]]
       /\ UNCHANGED <<histogram, file, has_header, fg, app>>

\* bg_index, index.rs:85: state.nb_read.store(pos).
WStoreRead(w) ==
    LET r == runs[w]
    IN /\ r.pc = "store_read"
       /\ runs' = [runs EXCEPT ![w] =
                [r EXCEPT !.nb_read = r.pos, !.pc = "read"]]
       /\ UNCHANGED <<histogram, file, has_header, fg, app>>

\* One step of the worker of run w.
Worker(w) ==
    \/ WRead(w)
    \/ WReadErr(w)
    \/ WPush(w)
    \/ WAdvance(w)
    \/ WCheck(w)
    \/ WFlush(w)
    \/ WStoreCol(w)
    \/ WStoreRead(w)

(***************************************************************************)
(* Specification SpecIdx: one Indexer run over a file, its worker          *)
(* interleaved with a foreground that reads through the handle and may     *)
(* drop it.                                                                *)
(***************************************************************************)
\* The raw records of the model's files: the lines "a" and ",1".
RecordKinds == { << <<"a">> >>, << <<>>, <<"1">> >> }

\* Filter texts handed to Indexer::index, compiled against two columns.
IdxFilterSources == { <<>>, <<"0">>, <<"!", "0">> }
IdxNbCol == 2

fgInit == [rows |-> 0, lo |-> 0, offs |-> <<>>, prog |-> 0]

\* Prompt::new (prompt.rs:47-53): the line buffer, its insertion point, the
\* history (oldest first) and the history position (-1 for None).
promptInit == [buffer |-> <<>>, ip |-> 0, hist |-> <<>>, hpos |-> -1]

\* App::open (main.rs:365-382) and the locals of main (main.rs:47-50).
\* perr is FilterPrompt.err (<<>> for None); panicked, quit and fault record
\* how the process ended: a panic, main returning, and the call whose I/O
\* error was unwrapped.  navigator is the Navigator of AppState::Nav (it
\* has a meaning in that state only).  call is the last call made on the App
\* or a component of it, with its arguments and what it returned.
appInit ==
    [state |-> "Normal", show_off |-> FALSE, indexer |-> 1, err |-> "",
     dirty |-> FALSE, cols |-> ColsNew, prompt |-> promptInit, perr |-> <<>>,
     panicked |-> FALSE, quit |-> FALSE, fault |-> "",
     ml |-> "top", redraw |-> TRUE, is_loading |-> FALSE,
     nav |-> NavNew, navigator |-> NavigatorNew(NavNew),
     call |-> [op |-> "none"]]

\* has_header is what sniff_has_header (source.rs:151-191) returned for the
\* file: it answers true only while looking at the fields of a second
\* record.
InitIdx ==
    /\ file \in SeqsUpTo(RecordKinds, MaxRecords)
    /\ has_header \in BOOLEAN
    /\ has_header => Len(file) >= 2
    /\ \E src \in IdxFilterSources :
          /\ Compile(src, IdxNbCol).ok
          /\ runs = << NewRun(file, Compile(src, IdxNbCol).f, has_header) >>
    /\ fg = fgInit
    /\ app = appInit
    /\ histogram = HistogramNew

\* The last foreground handle is dropped (Indexer dropped).
FgDrop ==
    /\ runs[1].held
    /\ runs' = [runs EXCEPT ![1].held = FALSE]
    /\ UNCHANGED <<histogram, file, has_header, fg, app>>

\* The foreground calls nb_row().
FgNbRow ==
    /\ runs[1].held
    /\ fg' = [fg EXCEPT !.rows = NbRow(runs[1])]
    /\ UNCHANGED <<histogram, file, has_header, runs, app>>

\* The foreground calls get_offsets(lo..hi).
FgGetOffsets ==
    /\ runs[1].held
    /\ \E lo \in 0..1 :
          fg' = [fg EXCEPT !.lo = lo,
                           !.offs = GetOffsets(runs[1], lo, lo + 3)]
    /\ UNCHANGED <<histogram, file, has_header, runs, app>>

\* The foreground calls progress().
FgProgress ==
    /\ runs[1].held
    /\ fg' = [fg EXCEPT !.prog = Progress(runs[1])]
    /\ UNCHANGED <<histogram, file, has_header, runs, app>>

NextIdx ==
    \/ Worker(1)
    \/ FgDrop
    \/ FgNbRow
    \/ FgGetOffsets
    \/ FgProgress

SpecIdx == InitIdx /\ [][NextIdx]_vars

\* The run without the foreground's reads, for liveness: the operating
\* system schedules the worker thread, so its steps are weakly fair.
NextIdxLive ==
    \/ Worker(1)
    \/ FgDrop

SpecIdxFair == InitIdx /\ [][NextIdxLive]_vars /\ WF_vars(Worker(1))

(***************************************************************************)
(* Properties of the Indexer (SpecIdx).                                    *)
(***************************************************************************)
\* Entries in source order: ordinals strictly increase, offsets do not
\* decrease.
SourceOrder(index) ==
    \A k \in 1..(Len(index) - 1) :
        /\ index[k][1] < index[k + 1][1]
        /\ index[k][2] <= index[k + 1][2]

\* C1: in every reachable state of an Indexer run the entries vector is in
\* source order (ordinals strictly increasing, offsets non-decreasing) and
\* row_count() is at most the worker's current ordinal + 1.
C1_SourceOrder ==
    \A w \in DOMAIN runs :
        /\ SourceOrder(runs[w].index)
        /\ NbRow(runs[w]) <= runs[w].count + 1

\* C1 witness: the worker has just pushed the entry of the record it is
\* on, so row_count() = ordinal + 1, with several entries in the vector.
C1_Witness ==
    \E w \in DOMAIN runs :
        /\ runs[w].pc = "advance"
        /\ NbRow(runs[w]) = runs[w].count + 1
        /\ NbRow(runs[w]) >= 3

\* The data records of the file: every record after the header, if any.
DataRecords == IF has_header /\ file # <<>> THEN Tail(file) ELSE file
HeaderBytes == IF has_header /\ file # <<>> THEN Amount(file[1]) ELSE 0
\* Byte offset at which data record k (0-based) starts.
OffsetOf(k) ==
    HeaderBytes + SumSeq([j \in 1..k |-> Amount(DataRecords[j])])
\* The (ordinal, offset) pairs of the first n data records filter accepts.
RECURSIVE Accepted(_, _)
Accepted(filter, n) ==
    IF n = 0 THEN <<>>
    ELSE IF Check(filter, ReadRecord(DataRecords[n]))
         THEN Append(Accepted(filter, n - 1), <<n - 1, OffsetOf(n - 1)>>)
         ELSE Accepted(filter, n - 1)

\* C2: with the foreground handle kept, once the worker has exited at end
\* of file the entries are exactly the (ordinal, offset) pairs of the data
\* records the evaluator accepts, in source order; with the empty filter
\* row_count() is the number of data records (file records minus one if
\* has_header).
C2_CompleteAtEof ==
    \A w \in DOMAIN runs :
        (runs[w].held /\ runs[w].exit = "eof") =>
            /\ runs[w].index = Accepted(runs[w].filter, Len(DataRecords))
            /\ runs[w].filter.nodes = <<>> =>
                 NbRow(runs[w])
                    = Len(file) - (IF has_header THEN 1 ELSE 0)

\* C2 witness: a worker has reached end of file over more than one
\* throttling window, its filter accepted some records and rejected others.
C2_Witness ==
    \E w \in DOMAIN runs :
        /\ runs[w].held /\ runs[w].exit = "eof"
        /\ runs[w].count > N
        /\ NbRow(runs[w]) >= 2
        /\ NbRow(runs[w]) < runs[w].count

\* C3: once the last foreground handle is dropped the worker consumes at
\* most N further records, whatever the filter and the records left: after
\* the N-th it only reaches the throttling check and exits.
C3_CancelWithinWindow ==
    \A w \in DOMAIN runs :
        /\ runs[w].since_drop <= N
        /\ runs[w].since_drop = N =>
              runs[w].pc \in {"push", "advance", "check", "done"}

\* C3 witness: a cancelled worker has exited mid-file after reading exactly
\* N records since the handle was dropped.
C3_Witness ==
    \E w \in DOMAIN runs :
        /\ runs[w].exit = "cancel"
        /\ runs[w].since_drop = N
        /\ runs[w].rd < Len(file)

\* C4 (as claimed): after the last foreground handle has been dropped the
\* worker performs no further write to the shared state: no push to
\* entries, no store of bytes_read or max_column_count.
C4_NoWriteAfterDrop ==
    [][\A w \in DOMAIN runs :
          ~runs[w].held =>
              /\ runs'[w].index = runs[w].index
              /\ runs'[w].nb_col = runs[w].nb_col
              /\ runs'[w].nb_read = runs[w].nb_read]_vars

\* C5: the entries vector is append-only under every interleaving: what
\* the foreground read stays in place in every later state of the vector
\* (a read from row 0 is a prefix of every later read), and row_count()
\* never decreases.
C5_AppendOnly ==
    /\ fg.rows <= NbRow(runs[1])
    /\ \A k \in 1..Len(fg.offs) :
          /\ fg.lo + k <= NbRow(runs[1])
          /\ runs[1].index[fg.lo + k] = fg.offs[k]
    /\ fg.lo = 0 => IsPrefix(fg.offs, runs[1].index)

\* C5 witness: the vector has grown since the foreground read a non-empty
\* prefix and a non-zero row count.
C5_Witness ==
    /\ fg.lo = 0
    /\ Len(fg.offs) >= 1
    /\ fg.rows >= 1
    /\ NbRow(runs[1]) > Len(fg.offs)
    /\ NbRow(runs[1]) > fg.rows

\* C6: progress() never decreases within a run and stays within 0..100;
\* a zero-length file yields 0.
C6_ProgressMonotonic ==
    /\ fg.prog <= Progress(runs[1])
    /\ Progress(runs[1]) \in 0..100
    /\ runs[1].file_len = 0 => Progress(runs[1]) = 0

\* C6 witness: progress() has grown since the foreground read a non-zero
\* value.
C6_Witness ==
    /\ fg.prog > 0
    /\ Progress(runs[1]) > fg.prog

\* C7: while the foreground holds the Indexer, is_loading() is true exactly
\* while the worker holds its clone of the state; the worker eventually
\* exits and from then on is_loading() stays false.
C7_IsLoading ==
    /\ [](runs[1].held => (IsLoading(runs[1]) <=> Alive(runs[1])))
    /\ <>[](~IsLoading(runs[1]))

\* C7 witness: the worker has exited at end of file after several records,
\* the handle is kept and is_loading() is false.
C7_Witness ==
    /\ runs[1].held
    /\ runs[1].exit = "eof"
    /\ runs[1].count >= 2
    /\ ~IsLoading(runs[1])

(***************************************************************************)
(* Prompt (src/prompt.rs) and FilterPrompt (src/ui.rs).                    *)
(***************************************************************************)
\* Capacity of the prompt's history ring (prompt.rs:42).
HistoryLen == 5

\* HistoryBuffer::push: the oldest item is overwritten once the ring is full.
HistoryPush(hist, item) ==
    IF Len(hist) = HistoryLen THEN Append(Tail(hist), item)
    ELSE Append(hist, item)

\* HistoryBuffer::get: the idx-th most recent item.
HistoryGet(hist, idx) == hist[Len(hist) - idx]

\* Prompt::state, the text shown.
PromptText(p) ==
    IF p.hpos # -1 THEN HistoryGet(p.hist, p.hpos) ELSE p.buffer

\* Prompt::solidify
Solidify(p) ==
    IF p.hpos # -1
    THEN [p EXCEPT !.buffer = HistoryGet(p.hist, p.hpos),
                   !.ip = Len(HistoryGet(p.hist, p.hpos)),
                   !.hpos = -1]
    ELSE p

\* Prompt::exec
PromptExec(p, cmd, arg) ==
    LET Write(q) ==
            [q EXCEPT !.buffer = SubSeq(q.buffer, 1, q.ip) \o <<arg>>
                                    \o SubSeq(q.buffer, q.ip + 1,
                                              Len(q.buffer)),
                      !.ip = q.ip + 1]
        Left(q) == [q EXCEPT !.ip = Max(q.ip - 1, 0)]
        Right(q) == [q EXCEPT !.ip = Min(q.ip + 1, Len(q.buffer))]
        Delete(q) ==
            IF q.ip = 0 THEN q
            ELSE [q EXCEPT !.buffer = SubSeq(q.buffer, 1, q.ip - 1)
                                         \o SubSeq(q.buffer, q.ip + 1,
                                                   Len(q.buffer)),
                           !.ip = q.ip - 1]
    IN CASE cmd = "Write" -> Write(Solidify(p))
         [] cmd = "Left" -> Left(Solidify(p))
         [] cmd = "Right" -> Right(Solidify(p))
         [] cmd = "Delete" -> Delete(Solidify(p))
         [] cmd = "Prev" ->
                IF p.hpos # -1 /\ p.hpos + 1 < Len(p.hist)
                THEN [p EXCEPT !.hpos = @ + 1]
                ELSE IF p.hpos = -1 /\ Len(p.hist) > 0
                     THEN [p EXCEPT !.hpos = 0]
                ELSE p
         [] cmd = "Next" ->
                IF p.hpos = 0 THEN [p EXCEPT !.hpos = -1]
                ELSE IF p.hpos > 0 THEN [p EXCEPT !.hpos = @ - 1]
                ELSE p
         [] cmd = "New" ->
                [p EXCEPT !.hist = HistoryPush(p.hist, PromptText(p)),
                          !.hpos = IF arg THEN 0 ELSE -1,
                          !.buffer = <<>>,
                          !.ip = 0]
         [] cmd = "Jump" -> [p EXCEPT !.ip = arg]
         [] OTHER -> p

\* The edits of the line buffer index its String at the insertion point:
\* past the end of the text (where Jump can leave it) they panic.
PromptPanics(p, cmd) ==
    /\ cmd \in {"Write", "Left", "Right", "Delete"}
    /\ Solidify(p).ip > Len(Solidify(p).buffer)

\* Characters typed in the filter prompt.
PromptChars == {"0", "!"}

\* FilterPrompt::on_key, the command each key code executes.
KeyCmd(code) ==
    CASE code \in PromptChars -> "Write"
      [] code = "Left" -> "Left"
      [] code = "Right" -> "Right"
      [] code = "Up" -> "Prev"
      [] code = "Down" -> "Next"
      [] code = "Backspace" -> "Delete"
      [] OTHER -> "None"

\* FilterPrompt::on_key, the prompt after the key.
OnKey(p, code) == PromptExec(p, KeyCmd(code), code)

\* Mutant of Apply: every key submits.
Apply_AnyKey(code) == TRUE

\* FilterPrompt::on_key, the flag returned with the text: only Enter
\* submits (ui.rs:155-158).
Apply(code) == code = "Enter"

(***************************************************************************)
(* App (src/main.rs).  A handler yields [a, rs]: the App and the Indexer   *)
(* runs after it.  io is the outcome of the handler's I/O.                 *)
(***************************************************************************)
\* An unwrap of an Err: the process panics in `where`.
Panic(a, rs, where) ==
    [a |-> [a EXCEPT !.panicked = TRUE, !.fault = where], rs |-> rs]

\* Mutant of ReplaceIndexer: the old Indexer is kept alive.
ReplaceIndexer_Keep(rs, cur, run) == Append(rs, run)

\* `self.indexer = index` (main.rs:392, main.rs:439): the run just started
\* becomes the application's and the handle on the previous one is dropped.
ReplaceIndexer(rs, cur, run) == Append([rs EXCEPT ![cur].held = FALSE], run)

\* App::refresh
Refresh(a, rs, io) ==
    IF io = "error" THEN Panic(a, rs, "refresh")
    ELSE [a |-> [a EXCEPT !.indexer = Len(rs) + 1, !.dirty = FALSE],
          rs |-> ReplaceIndexer(rs, a.indexer,
                                NewRun(file, EmptyFilter, has_header))]

\* App::on_event, AppState::Normal.  "S-Left" and "S-Right" are the arrow
\* keys pressed with SHIFT.
OnEventNormal(a, rs, code, io) ==
    LET Moved(b, dir) == [a |-> [b EXCEPT !.nav = NavMove(b.nav, dir)],
                          rs |-> rs]
        Cmd(cmd) ==
            IF ColsCmdPanics(a.cols, a.nav.c_col, cmd)
            THEN Panic(a, rs, "cols")
            ELSE [a |-> [a EXCEPT !.cols = ColsCmd(a.cols, a.nav.c_col, cmd)],
                  rs |-> rs]
        Then(res, dir) == IF res.a.panicked THEN res ELSE Moved(res.a, dir)
    IN IF code = "q" THEN [a |-> [a EXCEPT !.quit = TRUE], rs |-> rs]
       ELSE IF code = "r" THEN Refresh(a, rs, io)
       ELSE IF code = "-" THEN Cmd("Hide")
       ELSE IF code \in {"Left", "h"} THEN Moved(a, "left")
       ELSE IF code = "S-Left" THEN Then(Cmd("Left"), "left")
       ELSE IF code \in {"Down", "j"} THEN Moved(a, "down")
       ELSE IF code \in {"Up", "k"} THEN Moved(a, "up")
       ELSE IF code \in {"Right", "l"} THEN Moved(a, "right")
       ELSE IF code = "S-Right" THEN Then(Cmd("Right"), "right")
       ELSE IF code = "/"
            THEN [a |-> [a EXCEPT !.state = "Filter", !.show_off = TRUE],
                  rs |-> rs]
       ELSE IF code = "s" THEN [a |-> [a EXCEPT !.state = "Size"], rs |-> rs]
       ELSE IF code = "g"
            THEN [a |-> [a EXCEPT !.state = "Nav",
                                  !.navigator = NavigatorNew(a.nav)],
                  rs |-> rs]
       ELSE [a |-> a, rs |-> rs]

\* App::on_event, AppState::Filter
OnEventFilter(a, rs, code, io) ==
    LET Index(p, c) ==
            IF io = "error" THEN Panic(a, rs, "filter")
            ELSE [a |-> [a EXCEPT !.indexer = Len(rs) + 1,
                                  !.state = "Normal",
                                  !.prompt = PromptExec(p, "New", TRUE),
                                  !.perr = <<>>],
                  rs |-> ReplaceIndexer(rs, a.indexer,
                                        NewRun(file, c.f, has_header))]
        Compiled(p, apply, c) ==
            IF c.ok THEN
                IF apply THEN Index(p, c)
                ELSE [a |-> [a EXCEPT !.prompt = p, !.perr = <<>>],
                      rs |-> rs]
            ELSE [a |-> [a EXCEPT !.prompt =
                                      IF apply
                                      THEN PromptExec(p, "Jump", c.span[1])
                                      ELSE p,
                                  !.perr = <<c.span, c.msg>>],
                  rs |-> rs]
        Keyed(p, apply) ==
            Compiled(p, apply, Compile(PromptText(p), a.cols.nb_col))
    IN IF code = "Esc" THEN [a |-> [a EXCEPT !.state = "Normal"], rs |-> rs]
       ELSE IF code = "Tab"
            THEN [a |-> [a EXCEPT !.show_off = ~@], rs |-> rs]
       ELSE IF PromptPanics(a.prompt, KeyCmd(code))
            THEN Panic(a, rs, "prompt")
       ELSE Keyed(OnKey(a.prompt, code), Apply(code))

\* Mutant of ExitSize: the sizing keys keep the mode, the others leave it.
ExitSize_Inverted(code) ==
    code \notin {"r", "f", "Left", "h", "Down", "j", "Up", "k", "Right", "l"}

\* main.rs:452-470: exit_size, true unless the key is none of Esc and the
\* sizing keys.
ExitSize(code) ==
    code \in {"Esc", "r", "f", "Left", "h", "Down", "j", "Up", "k",
              "Right", "l"}

\* App::on_event, AppState::Size
OnEventSize(a, rs, code, io) ==
    LET Leave(b) ==
            [a |-> IF ExitSize(code) THEN [b EXCEPT !.state = "Normal"]
                   ELSE b,
             rs |-> rs]
        Cmd(cmd) ==
            IF SizeCmdPanics(a.cols, a.nav.c_col)
            THEN Panic(a, rs, "cols")
            ELSE Leave([a EXCEPT !.cols = SizeCmd(a.cols, a.nav.c_col, cmd)])
    IN IF code = "r" THEN Leave([a EXCEPT !.cols = ResetSize(a.cols)])
       ELSE IF code = "f" THEN Leave([a EXCEPT !.cols = Fit(a.cols)])
       ELSE IF code \in {"Left", "h"} THEN Cmd("Less")
       ELSE IF code \in {"Down", "j"} THEN Cmd("Constrain")
       ELSE IF code \in {"Up", "k"} THEN Cmd("Full")
       ELSE IF code \in {"Right", "l"} THEN Cmd("More")
       ELSE Leave(a)

\* App::on_event, AppState::Nav.  The Navigator goes with the state it
\* belongs to.
OnEventNav(a, rs, code, io) ==
    LET Keyed(res) ==
            IF res.some
            THEN [a |-> [a EXCEPT !.nav = res.g.nav, !.state = "Normal",
                                  !.navigator = NavigatorNew(NavNew)],
                  rs |-> rs]
            ELSE [a |-> [a EXCEPT !.navigator = res.g], rs |-> rs]
    IN Keyed(NavigatorOnKey(a.navigator, code))

\* App::on_event for a key event: the error banner's text is cleared, then
\* the key is handled according to the mode.
OnEvent(a, rs, code, io) ==
    CASE a.state = "Normal" ->
             OnEventNormal([a EXCEPT !.err = ""], rs, code, io)
      [] a.state = "Filter" ->
             OnEventFilter([a EXCEPT !.err = ""], rs, code, io)
      [] a.state = "Size" ->
             OnEventSize([a EXCEPT !.err = ""], rs, code, io)
      [] a.state = "Nav" ->
             OnEventNav([a EXCEPT !.err = ""], rs, code, io)

\* main.rs:533-558: Cols::size is called with the content width of every
\* column col_iter offers.
RECURSIVE SizeAll(_, _, _)
SizeAll(c, offered, budget) ==
    IF offered = <<>> THEN c
    ELSE SizeAll(Size(c, Head(offered), budget), Tail(offered), budget)

\* App::draw.  check_dirty and read_rows are unwrapped; the column count is
\* taken from the Indexer; the Nav of the mode (the Navigator's in goto
\* mode) is reconciled with the rows and the visible columns.  view is what
\* the terminal and the rows read give: the number of rows drawn (nb), the
\* set of columns that fit the width (fit) and the content width (budget).
Draw(a, rs, io, view) ==
    LET Sized(c, cn) ==
            IF \E k \in 1..Len(cn.yielded) : SizePanics(c, cn.yielded[k])
            THEN Panic(a, rs, "cols")
            ELSE [a |-> [a EXCEPT
                           !.dirty = @ \/ io = "changed",
                           !.cols = SizeAll(c, cn.yielded, view.budget),
                           !.nav = IF a.state = "Nav" THEN @ ELSE cn.nav,
                           !.navigator.nav =
                               IF a.state = "Nav" THEN cn.nav ELSE @],
                  rs |-> rs]
        Rowed(c, n) == Sized(c, ColIter(n, VisibleCols(c), view.fit))
        Synced(c, n) ==
            Rowed(c, RowOffset(n, NbRow(rs[a.indexer]), view.nb).nav)
    IN IF io = "error" THEN Panic(a, rs, "draw")
       ELSE Synced(SetNbCols(a.cols, NbCol(rs[a.indexer])),
                   IF a.state = "Nav" THEN a.navigator.nav ELSE a.nav)

(***************************************************************************)
(* Specification SpecApp: the main loop (main.rs:47-75) with the workers   *)
(* of every Indexer it starts.                                             *)
(***************************************************************************)
\* The file: one throttling window of one-column records.
AppFile == [k \in 1..N |-> << <<"a">> >>]

NormalKeys == {"q", "r", "/", "Esc"}
FilterKeys ==
    {"Esc", "Enter", "Backspace", "Left", "Right", "Up", "Down"}
        \cup PromptChars
IoOutcomes == {"ok", "error"}

InitApp ==
    /\ file = AppFile
    /\ has_header = FALSE
    /\ runs = << NewRun(AppFile, EmptyFilter, FALSE) >>
    /\ fg = fgInit
    /\ app = appInit
    /\ histogram = HistogramNew

\* The process is alive: it neither panicked nor returned from main.
Running == ~app.panicked /\ ~app.quit

\* main.rs:51-57: the loading state is sampled, then the frame drawn if
\* asked for, with one of the given views.
LoopTop(views) ==
    /\ Running
    /\ app.ml = "top"
    /\ \E io \in {"ok", "error"}, view \in views :
          app' = [(IF app.redraw THEN Draw(app, runs, io, view).a ELSE app)
                     EXCEPT !.is_loading = IsLoading(runs[app.indexer]),
                            !.redraw = FALSE,
                            !.ml = "poll"]
    /\ UNCHANGED <<histogram, file, has_header, runs, fg>>

\* The terminal of SpecApp: one row is drawn and no column fits.
AppViews == {[nb |-> 1, fit |-> {}, budget |-> 0]}

MainTop == LoopTop(AppViews)

\* main.rs:58 and 70-72: poll times out.
MainTimeout ==
    /\ Running
    /\ app.ml = "poll"
    /\ app' = [app EXCEPT !.redraw = @ \/ app.is_loading, !.ml = "top"]
    /\ UNCHANGED <<histogram, file, has_header, runs, fg>>

\* main.rs:59-63: the key event k is read and handled; call is what the
\* model records of it.
KeyEvent(k, call) ==
    /\ Running
    /\ app.ml \in {"poll", "events"}
    /\ \E io \in IoOutcomes :
          \E res \in {OnEvent(app, runs, k, io)} :
              /\ Len(res.rs) <= MaxRuns
              /\ app' = [res.a EXCEPT !.ml = "events",
                                      !.call = call]
              /\ runs' = res.rs
    /\ UNCHANGED <<histogram, file, has_header, fg>>

\* One key event of SpecApp.
MainEvent(k) ==
    /\ k \in (IF app.state = "Normal" THEN NormalKeys ELSE FilterKeys)
    /\ k \in PromptChars =>
          Len(PromptText(app.prompt)) < MaxPrompt
    /\ KeyEvent(k, app.call)

\* main.rs:64-72: no more event is pending, the next frame is drawn.
MainBreak ==
    /\ Running
    /\ app.ml = "events"
    /\ app' = [app EXCEPT !.redraw = TRUE, !.ml = "top"]
    /\ UNCHANGED <<histogram, file, has_header, runs, fg>>

\* A step of the worker of any Indexer run, while the process lives.
AppWorker == Running /\ \E w \in DOMAIN runs : Worker(w)

NextApp ==
    \/ MainTop
    \/ MainTimeout
    \/ \E k \in NormalKeys \cup FilterKeys : MainEvent(k)
    \/ MainBreak
    \/ AppWorker

SpecApp == InitApp /\ [][NextApp]_vars

(***************************************************************************)
(* Properties of the application (SpecApp).                                *)
(***************************************************************************)
\* The Indexer runs whose worker thread is alive.
AliveWorkers == {w \in DOMAIN runs : Alive(runs[w])}
\* The Indexer runs the application holds a handle on.
HeldRuns == {w \in DOMAIN runs : runs[w].held}

\* C8 (as claimed): at any time at most one indexer worker is alive, also
\* right after a refresh or a filter submission replaced the Indexer (the
\* application of src/main.rs starts no histographer worker, so this is the
\* whole of "at most two background workers").
C8_AtMostOneIndexerWorker == Cardinality(AliveWorkers) <= 1

\* C8 (amended): at any time the application holds exactly one Indexer, the
\* last one started, so at most one alive indexer worker is not cancelled;
\* the worker of every replaced Indexer is cancelled and consumes at most N
\* further records before it exits, and until then it is alive beside the
\* new one.
C8_AtMostOneHeldWorker ==
    /\ HeldRuns = {app.indexer}
    /\ app.indexer = Len(runs)
    /\ \A w \in AliveWorkers \ HeldRuns :
          /\ runs[w].since_drop <= N
          /\ runs[w].since_drop = N =>
                runs[w].pc \in {"push", "advance", "check"}

\* C8 witness: right after the Indexer was replaced the worker of the old
\* one and the worker of the new one are both alive.
C8_Witness ==
    /\ Cardinality(AliveWorkers) = 2
    /\ app.indexer = 2
    /\ ~runs[1].held
    /\ runs[1].since_drop >= 1

\* The keys of filter mode that go through FilterPrompt::on_key and
\* Filter::new.
FilterCompileKeys == FilterKeys \ {"Esc", "Tab"}

\* A key of filter mode is handled through FilterPrompt::on_key and
\* Filter::new.
FilterEvent == \E k \in FilterCompileKeys : MainEvent(k)

\* C9: in filter mode, a key after which the text fails to compile starts
\* no Indexer: the runs (the current Indexer and its entries among them),
\* the application's Indexer and the mode are unchanged and the prompt
\* records the error (byte range, message); an Indexer is started only by
\* Enter on a text that compiles, with the compiled filter, and the mode is
\* then Normal.  (A step that leaves the App as it is is no key of filter
\* mode that matters here, and a panic ends the process.)
C9_FilterCompile ==
    [][(app.state = "Filter" /\ app' # app /\ ~app'.panicked) =>
          /\ \A c \in {Compile(PromptText(app'.prompt), app.cols.nb_col)} :
                \/ c.ok
                \/ /\ runs' = runs
                   /\ app'.indexer = app.indexer
                   /\ app'.state = "Filter"
                   /\ app'.perr = <<c.span, c.msg>>
                \/ ~FilterEvent
          /\ (runs' # runs \/ app'.indexer # app.indexer) =>
                /\ MainEvent("Enter")
                /\ Compile(PromptText(app.prompt), app.cols.nb_col).ok
                /\ Len(runs') = Len(runs) + 1
                /\ app'.indexer = Len(runs')
                /\ runs'[Len(runs')].filter =
                      Compile(PromptText(app.prompt), app.cols.nb_col).f
                /\ app'.state = "Normal"]_vars

\* C9 witness: an Indexer was started from a filter submitted with Enter,
\* and a later text of the filter prompt failed to compile: the mode is
\* Filter, the error is recorded and the Indexer is still that one.
C9_Witness ==
    /\ app.state = "Filter"
    /\ app.perr # <<>>
    /\ app.indexer = 2
    /\ runs[2].filter.nodes # <<>>

\* C10 (as claimed): an I/O error raised while refreshing leaves the
\* application running, with the error in the top banner.
C10_RefreshRecoverable ==
    app.fault = "refresh" => (~app.panicked /\ app.err # "")


(***************************************************************************)
(* Specification SpecHist: a Histogram fed by any sequence of register     *)
(* calls (Histographer::bg_analyze, histogram.rs:135).                     *)
(***************************************************************************)
\* Largest number of register calls.
MaxRegister == 7
\* The values registered.
HistKeys == {"a", "b", "c"}

\* The number of register calls made so far.
Registered(h) == SumSeq([i \in 1..Len(h.counts) |-> h.counts[i].count])

InitHist ==
    /\ file = <<>>
    /\ has_header = FALSE
    /\ runs = <<>>
    /\ fg = fgInit
    /\ app = appInit
    /\ histogram = HistogramNew

HistRegister ==
    /\ Registered(histogram) < MaxRegister
    /\ \E value \in HistKeys : histogram' = Register(histogram, value)
    /\ UNCHANGED <<file, has_header, runs, fg, app>>

NextHist == HistRegister

SpecHist == InitHist /\ [][NextHist]_vars

\* C11: after any sequence of register calls, counts is sorted by count in
\* non-increasing order.
C11_CountsSorted ==
    \A i \in 1..(Len(histogram.counts) - 1) :
        histogram.counts[i].count >= histogram.counts[i + 1].count

\* C11 witness: a key registered after two others has overtaken them: the
\* swap of register has run.
C11_Witness ==
    /\ Len(histogram.counts) = 3
    /\ histogram.counts[1].value_idx = 2
    /\ histogram.counts[1].count > histogram.counts[2].count

\* C12: after any sequence of register calls the two indirections are
\* consistent: counts and values have one entry per key, the entry of counts
\* a key points to names that key, the key an entry of counts names points
\* back to that entry, and no key is named by two entries.
C12_IndirectionsConsistent ==
    /\ Len(histogram.counts) = Len(histogram.keys)
    /\ Len(histogram.values) = Len(histogram.keys)
    /\ \A v \in 1..Len(histogram.keys) :
          /\ histogram.values[v] \in 0..(Len(histogram.counts) - 1)
          /\ histogram.counts[histogram.values[v] + 1].value_idx = v - 1
    /\ \A i \in 1..Len(histogram.counts) :
          /\ histogram.counts[i].value_idx \in 0..(Len(histogram.keys) - 1)
          /\ histogram.values[histogram.counts[i].value_idx + 1] = i - 1
    /\ \A i, j \in 1..Len(histogram.counts) :
          histogram.counts[i].value_idx = histogram.counts[j].value_idx
              => i = j
    /\ \A v, w \in 1..Len(histogram.keys) :
          histogram.keys[v] = histogram.keys[w] => v = w

\* C12 witness: entries of counts were swapped, so that the order of counts
\* differs from the insertion order of the keys.
C12_Witness ==
    /\ Len(histogram.counts) = 3
    /\ histogram.values[1] = 2
    /\ histogram.values[3] = 0

\* C13 (as claimed): values that have equal counts appear in counts in the
\* order of their first insertion.
C13_TiesInInsertionOrder ==
    \A i, j \in 1..Len(histogram.counts) :
        (i < j /\ histogram.counts[i].count = histogram.counts[j].count)
            => histogram.counts[i].value_idx < histogram.counts[j].value_idx

\* The positions of counts at which a register call changed the value
\* named.
MovedEntries ==
    {j \in 1..Len(histogram.counts) :
        histogram'.counts[j].value_idx # histogram.counts[j].value_idx}

\* C13 (amended): a value registered for the first time is appended, after
\* every value already counted.  A register of a known value at position i
\* moves no entry, or exchanges exactly two: the entry of the value goes to
\* position k < i, the first of the positions holding its old count, and
\* the entry that was at k goes to i, behind the other values of that
\* count; so values of equal count are not kept in insertion order.
C13_TiesAfterSwap ==
    [][IF Len(histogram'.keys) # Len(histogram.keys)
       THEN histogram'.counts =
                Append(histogram.counts,
                       [value_idx |-> Len(histogram.keys), count |-> 1])
       ELSE \/ MovedEntries = {}
            \/ \E k, i \in 1..Len(histogram.counts) :
                  /\ k < i
                  /\ MovedEntries = {k, i}
                  /\ histogram'.counts[k] =
                        [histogram.counts[i] EXCEPT !.count = @ + 1]
                  /\ histogram'.counts[i] = histogram.counts[k]
                  /\ \A j \in k..i :
                        histogram.counts[j].count = histogram.counts[i].count
                  /\ \A j \in 1..(k - 1) :
                        histogram.counts[j].count > histogram.counts[i].count
      ]_vars

\* C13 witness: three values were inserted and the last one registered
\* again: the two others, of equal count, are in reverse insertion order.
C13_Witness ==
    /\ Len(histogram.counts) = 3
    /\ histogram.counts[1].value_idx = 2
    /\ histogram.counts[2].count = histogram.counts[3].count
    /\ histogram.counts[2].value_idx > histogram.counts[3].value_idx

(***************************************************************************)
(* Specifications SpecNavRow and SpecNavCol: a Nav driven by cursor moves, *)
(* go_to and the calls App::draw makes on it (main.rs:523, main.rs:533).   *)
(***************************************************************************)
\* Largest cursor coordinate reached by moves and go_to.
MaxCoord == 3
\* Largest number of rows / visible columns of the grid.
MaxTotal == 4
\* Largest number of rows drawn.
MaxView == 2

RowMoves == {"up", "down", "full_up", "full_down"}
ColMoves == {"left", "right", "full_left", "full_right"}

InitNav ==
    /\ file = <<>>
    /\ has_header = FALSE
    /\ runs = <<>>
    /\ fg = fgInit
    /\ app = appInit
    /\ histogram = HistogramNew

\* One of the cursor moves.
NavMoves(dirs) ==
    /\ \E dir \in dirs :
          /\ dir = "down" => app.nav.c_row < MaxCoord
          /\ dir = "right" => app.nav.c_col < MaxCoord
          /\ app' = [app EXCEPT !.nav = NavMove(app.nav, dir),
                                !.call = [op |-> "move"]]
    /\ UNCHANGED <<file, has_header, runs, fg, histogram>>

NavGoTo ==
    /\ \E row, col \in 0..MaxCoord :
          app' = [app EXCEPT !.nav = GoTo(app.nav, row, col),
                             !.call = [op |-> "move"]]
    /\ UNCHANGED <<file, has_header, runs, fg, histogram>>

NavRowOffset ==
    /\ \E total \in 0..MaxTotal, nb \in 0..MaxView :
          \E res \in {RowOffset(app.nav, total, nb)} :
              app' = [app EXCEPT !.nav = res.nav,
                                 !.call = [op |-> "row_offset",
                                           total |-> total, nb |-> nb,
                                           ret |-> res.ret]]
    /\ UNCHANGED <<file, has_header, runs, fg, histogram>>

NavColIter ==
    /\ \E total \in 0..MaxTotal :
          \E fit \in SUBSET (0..(total - 1)) :
              \E res \in {ColIter(app.nav, total, fit)} :
                  app' = [app EXCEPT !.nav = res.nav,
                                     !.call = [op |-> "col_iter",
                                               total |-> total, fit |-> fit,
                                               o_prev |-> app.nav.o_col,
                                               yielded |-> res.yielded]]
    /\ UNCHANGED <<file, has_header, runs, fg, histogram>>

NextNavRow ==
    \/ NavMoves(RowMoves)
    \/ NavGoTo
    \/ NavRowOffset

SpecNavRow == InitNav /\ [][NextNavRow]_vars

NextNavCol ==
    \/ NavMoves(ColMoves)
    \/ NavGoTo
    \/ NavColIter

SpecNavCol == InitNav /\ [][NextNavCol]_vars

C15_CursorColumnFirst ==
    [][(app'.call.op = "col_iter" /\ app'.call.total >= 1) =>
          /\ app'.call.yielded # <<>>
          /\ app'.call.yielded[1] = Min(app.nav.c_col, app'.call.total - 1)
          /\ app'.call.yielded[1] = app'.nav.c_col]_vars

\* C15 witness: col_iter has offered several columns, the first of them the
\* cursor column, which lies right of the previous origin's column 0.
C15_Witness ==
    /\ app.call.op = "col_iter"
    /\ Len(app.call.yielded) >= 3
    /\ app.call.yielded[1] = app.nav.c_col
    /\ app.nav.c_col >= 1
    /\ app.nav.o_col = 0

\* The columns right of the cursor, up to the last one.
RightOfCursor(n) == (n.c_col + 1)..n.m_col

\* C16: in col_iter, when the previous origin g is at most the (clamped)
\* cursor and fit accepts every column from the cursor down to g, column g
\* is yielded and the new origin is at most g; it is g unless fit accepted
\* every column right of the cursor up to the last column as well.
C16_OriginPreserved ==
    [][(/\ app'.call.op = "col_iter"
        /\ app'.call.total >= 1
        /\ app.nav.o_col <= app'.nav.c_col
        /\ (app.nav.o_col)..(app'.nav.c_col) \subseteq app'.call.fit) =>
          /\ \E i \in 1..Len(app'.call.yielded) :
                app'.call.yielded[i] = app.nav.o_col
          /\ app'.nav.o_col <= app.nav.o_col
          /\ app'.nav.o_col < app.nav.o_col =>
                RightOfCursor(app'.nav) \subseteq app'.call.fit]_vars

\* C16 witness: the previous origin 1 lay left of the cursor, every column
\* from the cursor down to it was accepted, a column right of the cursor
\* was refused, and the origin is still 1.
C16_Witness ==
    /\ app.call.op = "col_iter"
    /\ app.nav.o_col = 1
    /\ app.nav.c_col = 2
    /\ app.nav.m_col = 3
    /\ app.call.fit = {1, 2}
    /\ app.call.yielded = <<2, 1, 3>>


(***************************************************************************)
(* Specification SpecCols: a Cols driven by the calls App::draw and        *)
(* App::on_event make on it, each with a valid visible position.           *)
(***************************************************************************)
\* Largest column count given to set_nb_cols.
MaxCols == 2

ColsCmds == {"Hide", "Left", "Right"}
SizeCmds == {"Constrain", "Full", "Less", "More"}

\* The valid visible positions (any position when no column is visible: the
\* commands return before using it).
Positions(c) == 0..Max(VisibleCols(c) - 1, 0)

InitCols ==
    /\ file = <<>>
    /\ has_header = FALSE
    /\ runs = <<>>
    /\ fg = fgInit
    /\ app = appInit
    /\ histogram = HistogramNew

\* The call is made, or panics.
ColsCall(panics, c) ==
    /\ ~app.panicked
    /\ app' = IF panics THEN Panic(app, runs, "cols").a
              ELSE [app EXCEPT !.cols = c, !.call = [op |-> "cols"]]
    /\ UNCHANGED <<file, has_header, runs, fg, histogram>>

\* set_nb_cols, with the Cols it was called on and its argument kept for the
\* properties about the call.
ColsSetNbCols ==
    \E nb_col \in 0..MaxCols :
        /\ ~app.panicked
        /\ app' = [app EXCEPT !.cols = SetNbCols(app.cols, nb_col),
                             !.call = [op |-> "set_nb_cols", prev |-> app.cols,
                                       nb_col |-> nb_col]]
        /\ UNCHANGED <<file, has_header, runs, fg, histogram>>

ColsCommand ==
    \E idx \in Positions(app.cols), cmd \in ColsCmds :
        ColsCall(ColsCmdPanics(app.cols, idx, cmd),
                 ColsCmd(app.cols, idx, cmd))

ColsSize ==
    \E idx \in Positions(app.cols), len \in {0, MaxSize} :
        /\ VisibleCols(app.cols) # 0
        /\ ColsCall(SizePanics(app.cols, idx), Size(app.cols, idx, len))

ColsResetSize == ColsCall(FALSE, ResetSize(app.cols))

ColsFit == ColsCall(FALSE, Fit(app.cols))

ColsSizeCommand ==
    \E idx \in Positions(app.cols), cmd \in SizeCmds :
        /\ (cmd = "More" /\ ~SizeCmdPanics(app.cols, idx)
                /\ VisibleCols(app.cols) # 0)
              => GetSize(app.cols, idx) < MaxSize
        /\ ColsCall(SizeCmdPanics(app.cols, idx),
                    SizeCmd(app.cols, idx, cmd))

NextCols ==
    \/ ColsSetNbCols
    \/ ColsCommand
    \/ ColsSize
    \/ ColsResetSize
    \/ ColsFit
    \/ ColsSizeCommand

SpecCols == InitCols /\ [][NextCols]_vars

\* C17: after any sequence of set_nb_cols, Hide, Left and Right (and the
\* sizing calls, which leave the order alone), every value of the order is
\* below the largest column count seen and no source column is in the order
\* twice.
C17_OrderValid ==
    /\ \A v \in 1..Len(app.cols.map) : app.cols.map[v] < app.cols.max_col
    /\ \A v, w \in 1..Len(app.cols.map) :
          app.cols.map[v] = app.cols.map[w] => v = w

\* C17 witness: two columns were seen, the count then dropped to one, and
\* the two columns of the order were exchanged.
C17_Witness ==
    /\ app.cols.max_col = 2
    /\ app.cols.nb_col = 1
    /\ app.cols.map = <<1, 0>>

\* C18 (as claimed): after any sequence of Cols operations the size Vec has
\* an entry for every column count seen, hence for every source column of
\* the order.
C18_SizeCoversColumns ==
    /\ Len(app.cols.size) >= app.cols.max_col
    /\ \A v \in 1..Len(app.cols.map) : app.cols.map[v] < Len(app.cols.size)


(***************************************************************************)
(* Specifications SpecSize and SpecGoto: the main loop on a file of two    *)
(* columns, with the keys of size mode and of goto mode.                   *)
(***************************************************************************)
\* The file: one throttling window of two-column records.
ModeFile == [k \in 1..N |-> << <<"a">>, <<"a">> >>]

\* The terminal: one row is drawn, both columns fit.
ModeViews == {[nb |-> 1, fit |-> {0, 1}, budget |-> MaxSize]}

InitModes ==
    /\ file = ModeFile
    /\ has_header = FALSE
    /\ runs = << NewRun(ModeFile, EmptyFilter, FALSE) >>
    /\ fg = fgInit
    /\ app = appInit
    /\ histogram = HistogramNew

\* The keys of SpecSize, by mode; "x" stands for any key size mode does not
\* know.
SizeNormalKeys == {"s", "h", "l"}
SizeKeys == {"Esc", "r", "f", "h", "j", "k", "l", "x"}

\* One key event of SpecSize.  Widths stay within MaxSize, the cursor
\* within MaxCoord.
SizeEvent(k) ==
    /\ app.state \in {"Normal", "Size"}
    /\ k \in (IF app.state = "Normal" THEN SizeNormalKeys ELSE SizeKeys)
    /\ (app.state = "Normal" /\ k = "l") => app.nav.c_col < MaxCoord
    /\ (app.state = "Size" /\ k = "l"
            /\ ~SizeCmdPanics(app.cols, app.nav.c_col)
            /\ VisibleCols(app.cols) # 0)
          => GetSize(app.cols, app.nav.c_col) < MaxSize
    /\ KeyEvent(k, [op |-> "key", code |-> k])

NextSize ==
    \/ LoopTop(ModeViews)
    \/ MainTimeout
    \/ \E k \in SizeNormalKeys \cup SizeKeys : SizeEvent(k)
    \/ MainBreak
    \/ AppWorker

SpecSize == InitModes /\ [][NextSize]_vars

\* The step handles key k in mode m without panicking.
KeyStep(m, k) ==
    /\ app.state = m
    /\ app.ml \in {"poll", "events"}
    /\ app'.ml = "events"
    /\ app'.call = [op |-> "key", code |-> k]
    /\ runs' = runs
    /\ ~app'.panicked

\* The size command of each sizing key of size mode.
SizeKeyCmd(k) ==
    CASE k = "h" -> "Less" [] k = "l" -> "More"
      [] k = "j" -> "Constrain" [] k = "k" -> "Full"

\* The Cols after key k of size mode.
SizeKeyCols(c, idx, k) ==
    IF k = "r" THEN ResetSize(c)
    ELSE IF k = "f" THEN Fit(c)
    ELSE IF k \in {"h", "l", "j", "k"} THEN SizeCmd(c, idx, SizeKeyCmd(k))
    ELSE c

\* C19 (as claimed): in size mode the keys h, l, j, k, r and f apply their
\* size command and the mode stays Size; any other key returns to Normal.
C19_SizeKeysStay ==
    [][\A k \in SizeKeys :
          KeyStep("Size", k) =>
              /\ app'.cols = SizeKeyCols(app.cols, app.nav.c_col, k)
              /\ app'.state = IF k \in {"h", "l", "j", "k", "r", "f"}
                              THEN "Size" ELSE "Normal"]_vars

\* C19 (amended): in size mode the keys h, l, j, k, r and f apply their
\* size command (unless it panics) and the mode returns to Normal, as it
\* does on Esc, which applies nothing; any other key is ignored and the
\* mode stays Size.
C19_SizeKeysLeave ==
    [][\A k \in SizeKeys :
          KeyStep("Size", k) =>
              /\ app'.cols = SizeKeyCols(app.cols, app.nav.c_col, k)
              /\ app'.state = IF k \in {"h", "l", "j", "k", "r", "f", "Esc"}
                              THEN "Normal" ELSE "Size"]_vars

\* C19 witness: the key h was handled in size mode: the cursor column has
\* the width Less defined and the mode is Normal.
C19_Witness ==
    /\ app.call = [op |-> "key", code |-> "h"]
    /\ app.state = "Normal"
    /\ app.ml = "events"
    /\ Len(app.cols.size) = 2
    /\ app.cols.size[app.cols.map[app.nav.c_col + 1] + 1].kind = "Defined"

\* Longest text typed in the goto prompt.
MaxGoto == 2

\* The keys of SpecGoto, by mode.
GotoNormalKeys == {"g", "j"}
GotoKeys == {"Backspace", "Left", "Down", "Esc", "Enter"} \cup GotoChars

\* One key event of SpecGoto.
GotoEvent(k) ==
    /\ app.state \in {"Normal", "Nav"}
    /\ k \in (IF app.state = "Normal" THEN GotoNormalKeys ELSE GotoKeys)
    /\ (app.state = "Normal" /\ k = "j") => app.nav.c_row < MaxCoord
    /\ (app.state = "Nav" /\ k \in GotoChars)
          => Len(app.navigator.buff) < MaxGoto
    /\ KeyEvent(k, [op |-> "key", code |-> k])

NextGoto ==
    \/ LoopTop(ModeViews)
    \/ MainTimeout
    \/ \E k \in GotoNormalKeys \cup GotoKeys : GotoEvent(k)
    \/ MainBreak
    \/ AppWorker

SpecGoto == InitModes /\ [][NextGoto]_vars

\* C20 (as claimed): in goto mode Esc leaves the mode with the cursor at
\* the position it had when the mode was entered, whatever was typed in
\* between; Enter leaves the mode with the cursor at the position typed.
C20_EscRestores ==
    [][/\ KeyStep("Nav", "Esc") =>
             /\ app'.state = "Normal"
             /\ <<app'.nav.c_row, app'.nav.c_col>> = app.navigator.from
       /\ KeyStep("Nav", "Enter") =>
             /\ app'.state = "Normal"
             /\ <<app'.nav.c_row, app'.nav.c_col>> =
                   <<app.navigator.nav.c_row, app.navigator.nav.c_col>>
      ]_vars

(***************************************************************************)
(* Specification SpecSniffDelimiter: sniff_delimiter called on files of    *)
(* up to MaxText bytes.                                                    *)
(***************************************************************************)
\* Longest file text given to sniff_delimiter.
MaxText == 4
\* Bytes of the file: three of the candidates, an ordinary byte and the
\* line terminator.
TextBytes == {",", ";", "_", "a", "\n"}

InitSniff ==
    /\ file = <<>>
    /\ has_header = FALSE
    /\ runs = <<>>
    /\ fg = fgInit
    /\ app = appInit
    /\ histogram = HistogramNew

SniffDelimiterCall ==
    /\ \E text \in SeqsUpTo(TextBytes, MaxText) :
          app' = [app EXCEPT !.call = [op |-> "sniff_delimiter",
                                       text |-> text,
                                       ret |-> SniffDelimiter(text)]]
    /\ UNCHANGED <<file, has_header, runs, fg, histogram>>

NextSniffDelimiter == SniffDelimiterCall

SpecSniffDelimiter == InitSniff /\ [][NextSniffDelimiter]_vars

\* The candidate the documented rule selects: the first, in the listed
\* order, of those with the highest count.
FirstMaximum(counter) ==
    CHOOSE i \in 1..Len(counter) :
        /\ \A j \in 1..Len(counter) : counter[j] <= counter[i]
        /\ \A j \in 1..(i - 1) : counter[j] < counter[i]

\* C21: sniff_delimiter returns the candidate with the highest count on the
\* first line, the first listed one among equal counts, and ',' when every
\* count is zero.
C21_FirstMaximumWins ==
    app.call.op = "sniff_delimiter" =>
        /\ app.call.ret =
              DELIMITER[FirstMaximum(Counter(FirstLine(app.call.text)))]
        /\ (\A i \in 1..Len(DELIMITER) :
               Counter(FirstLine(app.call.text))[i] = 0)
              => app.call.ret = ","

(***************************************************************************)
(* Specification SpecSniffHeader: sniff_has_header called on the first two *)
(* records of a file.                                                      *)
(***************************************************************************)
\* Largest number of fields of a sniffed record.
MaxFields == 2
\* Fields of the sniffed records: empty, a string, two numbers, a boolean.
SniffFields == {<<>>, <<"a">>, <<"1">>, <<"2">>, <<"t", "r", "u", "e">>}

\* A record without field is what the reader leaves at end of file, so
\* nothing follows it.
SniffHasHeaderCall ==
    /\ \E h, r1 \in SeqsUpTo(SniffFields, MaxFields) :
          /\ h = <<>> => r1 = <<>>
          /\ app' = [app EXCEPT !.call =
                       [op |-> "sniff_has_header",
                        h |-> ReadRecord(h),
                        r1 |-> ReadRecord(r1),
                        res |-> SniffHasHeader(ReadRecord(h),
                                               ReadRecord(r1))]]
    /\ UNCHANGED <<file, has_header, runs, fg, histogram>>

NextSniffHeader == SniffHasHeaderCall

SpecSniffHeader == InitSniff /\ [][NextSniffHeader]_vars

\* The documented class of a field: "Number", "Boolean" or "String".
TyClass(field) == Guess(field).ty

\* The documented four-rule policy.
HeaderPolicy(h, r1) ==
    IF TwoEmpty(RecordIter(h)) THEN FALSE
    ELSE IF /\ \A k \in 1..Len(h) : TyClass(h[k]) = "Str"
            /\ \E k \in 1..Len(r1) : TyClass(r1[k]) # "Str"
         THEN TRUE
    ELSE IF /\ [k \in 1..Len(h) |-> TyClass(h[k])]
                  = [k \in 1..Len(r1) |-> TyClass(r1[k])]
            /\ \E k \in 1..Len(h) : TyClass(h[k]) # "Str"
         THEN FALSE
    ELSE TRUE

\* C22: for every first record H and second record R1, sniff_has_header
\* returns what the four rules give, applied in order: two empty H-fields,
\* not a header; all H-fields String and some R1-field not String, a
\* header; identical type vectors that are not all String, not a header;
\* otherwise a header.
C22_FourRulePolicy ==
    (app.call.op = "sniff_has_header" /\ ~app.call.res.panics) =>
        app.call.res.ret = HeaderPolicy(app.call.h, app.call.r1)

(***************************************************************************)
(* Specification SpecRange: Compiler::parse_range called on the text that  *)
(* follows a column index.                                                 *)
(***************************************************************************)
\* Largest operand written in a range.
MaxOperand == 2
\* An operand of a range, -1 when it is omitted.
Operands == -1..MaxOperand
RangeSeps == {"", "~", ":"}

\* The text of a range with the given parts.
RangeText(open, start, sep, end, close) ==
    (IF open THEN <<"[">> ELSE <<>>)
        \o (IF start >= 0 THEN NatStr(start) ELSE <<>>)
        \o (IF sep # "" THEN <<sep>> ELSE <<>>)
        \o (IF end >= 0 THEN NatStr(end) ELSE <<>>)
        \o (IF close THEN <<"]">> ELSE <<>>)

ParseRangeCall ==
    /\ \E open, close \in BOOLEAN, start, end \in Operands,
          sep \in RangeSeps :
          \E src \in {RangeText(open, start, sep, end, close)} :
              app' = [app EXCEPT !.call =
                         [op |-> "parse_range", src |-> src,
                          open |-> open, start |-> start, sep |-> sep,
                          end |-> end, close |-> close,
                          res |-> ParseRange(src, RangeTokenize(src), 1,
                                             EmptyFilter)]]
    /\ UNCHANGED <<file, has_header, runs, fg, histogram>>

NextRange == ParseRangeCall

SpecRange == InitSniff /\ [][NextRange]_vars

\* The documented bounds of a well-formed range [start sep end], <<>> when
\* the form is not one of the documented ones.
DocumentedRange(start, sep, end) ==
    CASE start >= 0 /\ sep = "" /\ end < 0 -> <<start, start + 1>>
      [] start >= 0 /\ sep = ":" /\ end >= 0 /\ start <= end -> <<start, end>>
      [] start >= 0 /\ sep = "~" /\ end >= 0 -> <<start, start + end>>
      [] start >= 0 /\ sep = "~" /\ end < 0 -> <<start, U32_MAX>>
      [] start < 0 /\ sep \in {"~", ":"} /\ end >= 0 -> <<0, end>>
      [] OTHER -> <<>>

\* C24: parse_range maps [S] to (S, S+1), [S:E] with S <= E to (S, E),
\* [S~L] to (S, S+L), [S~] to (S, u32::MAX), [~L] and [:L] to (0, L) and an
\* absent range to (0, u32::MAX), and rejects [S:E] with S > E.
C24_RangeForms ==
    app.call.op = "parse_range" =>
        /\ (app.call.open /\ app.call.close
                /\ DocumentedRange(app.call.start, app.call.sep,
                                   app.call.end) # <<>>) =>
              /\ app.call.res.ok
              /\ app.call.res.v = DocumentedRange(app.call.start,
                                                  app.call.sep, app.call.end)
        /\ (~app.call.open /\ ~app.call.close /\ app.call.start < 0
                /\ app.call.sep = "" /\ app.call.end < 0) =>
              /\ app.call.res.ok
              /\ app.call.res.v = <<0, U32_MAX>>
        /\ (app.call.open /\ app.call.close /\ app.call.sep = ":"
                /\ app.call.start >= 0 /\ app.call.end >= 0
                /\ app.call.start > app.call.end) =>
              ~app.call.res.ok

(***************************************************************************)
(* Specification SpecFilter: one Filter compiled from a source            *)
(* (Filter::new) and then evaluated on records (Engine::check).            *)
(***************************************************************************)
\* Number of columns of the file the filter is compiled for.
FilterNbCol == 3

\* Actions testing that a column is not empty.
ExistActions == {<<"0">>, <<"1">>, <<"2">>}
LogiWords == {<<"&", "&">>, <<"|", "|">>}
\* Expressions of one, two and three actions.
ExprSources ==
    ExistActions
        \cup {a \o op \o b : a, b \in ExistActions, op \in LogiWords}
        \cup {a \o op1 \o b \o op2 \o c :
                 a, b, c \in ExistActions, op1, op2 \in LogiWords}
\* Expressions wrapped in parentheses or negated.
InnerSources ==
    ExistActions \cup {<<"0">> \o op \o <<"1">> : op \in LogiWords}
ParenSources ==
    {<<"(">> \o e \o <<")">> : e \in InnerSources}
        \cup {<<"!">> \o e : e \in InnerSources}
        \cup {<<"!", "(">> \o e \o <<")">> : e \in InnerSources}
\* Comparisons and matches of column 0 against one item or a list of two.
ListOps == {<<"=", "=">>, <<"<">>, <<"~">>}
Combiners == {<<>>, <<"a", "l", "l">>, <<"a", "n", "y">>}
ListItems == {<<"1">>, <<"2">>, <<"a">>, <<"b">>}
ListSources ==
    {<<"0">> \o op \o v : op \in ListOps, v \in ListItems}
        \cup {<<"0">> \o op \o m \o <<"{">> \o v1 \o <<",">> \o v2 \o <<"}">> :
                 op \in ListOps, m \in Combiners, v1, v2 \in ListItems}
FilterSources == ExprSources \cup ParenSources \cup ListSources

\* Records of FilterNbCol fields.
FilterRecords ==
    {r \in [1..FilterNbCol -> {<<>>, <<"1">>, <<"2">>, <<"a">>, <<"a", "b">>}] :
        \A k \in 2..FilterNbCol : r[k] \in {<<>>, <<"1">>}}

\* Filter::new
FilterNew ==
    /\ app.call.op = "none"
    /\ \E src \in FilterSources :
          app' = [app EXCEPT !.call = [op |-> "new", src |-> src,
                                       c |-> Compile(src, FilterNbCol),
                                       record |-> <<>>, accept |-> FALSE]]
    /\ UNCHANGED <<file, has_header, runs, fg, histogram>>

\* Engine::check on the compiled filter.
FilterCheck ==
    /\ app.call.op \in {"new", "check"}
    /\ app.call.c.ok
    /\ \E record \in FilterRecords :
          app' = [app EXCEPT !.call.op = "check",
                             !.call.record = record,
                             !.call.accept = Check(app.call.c.f, record)]
    /\ UNCHANGED <<file, has_header, runs, fg, histogram>>

NextFilter ==
    \/ FilterNew
    \/ FilterCheck

SpecFilter == InitSniff /\ [][NextFilter]_vars

\* Whether the filter compiled from src accepts record.
Accepts(src, record) == Check(Compile(src, FilterNbCol).f, record)
\* The root node of a compiled filter.
Root(f) == f.nodes[f.start + 1]

\* C23: `( e )` compiles whenever e compiles and its root is a Unary node
\* with negate = false, so it accepts exactly the records e accepts; `not e`
\* has a root with negate = true and accepts exactly the records e rejects.
C23_ParenTransparent ==
    \A e \in InnerSources :
        /\ (app.call.op \in {"new", "check"}
                /\ app.call.src = <<"(">> \o e \o <<")">>
                /\ Compile(e, FilterNbCol).ok) =>
              /\ app.call.c.ok
              /\ Root(app.call.c.f).kind = "Unary"
              /\ ~Root(app.call.c.f).neg
              /\ app.call.op = "check" =>
                    app.call.accept = Accepts(e, app.call.record)
        /\ (app.call.op \in {"new", "check"}
                /\ app.call.src = <<"!">> \o e
                /\ Compile(e, FilterNbCol).ok) =>
              /\ app.call.c.ok
              /\ Root(app.call.c.f).kind = "Unary"
              /\ Root(app.call.c.f).neg
              /\ app.call.op = "check" =>
                    app.call.accept = ~Accepts(e, app.call.record)

\* The value of `a op b` for the operator written op.
Logi(op, a, b) == IF op = <<"&", "&">> THEN a /\ b ELSE a \/ b

\* C25: a filter `A op1 B op2 C` accepts a record exactly when
\* A op1 (B op2 C) holds of it, for each of the four combinations of the
\* operators and / or.
C25_RightRecursive ==
    \A a, b, c \in ExistActions : \A op1, op2 \in LogiWords :
        (app.call.op = "check"
            /\ app.call.src = a \o op1 \o b \o op2 \o c) =>
            app.call.accept =
                Logi(op1, Accepts(a, app.call.record),
                     Logi(op2, Accepts(b, app.call.record),
                          Accepts(c, app.call.record)))

\* C25 witness: `0&&1||2` was evaluated on a record whose column 0 is empty
\* and whose column 2 is not, and rejected it: (0 && 1) || 2 would hold.
C25_Witness ==
    /\ app.call.op = "check"
    /\ app.call.src = <<"0", "&", "&", "1", "|", "|", "2">>
    /\ app.call.record[1] = <<>>
    /\ app.call.record[3] # <<>>
    /\ ~app.call.accept

\* C26: a comparison or a match of a column against a list of two items
\* accepts a record under `all` iff the column passes the test against both
\* items, under `any` iff it passes against one of them at least, and
\* without a keyword as under `all`.
C26_AllAny ==
    \A op \in ListOps : \A m \in Combiners : \A v1, v2 \in ListItems :
        (app.call.op = "check"
            /\ app.call.src = <<"0">> \o op \o m \o <<"{">> \o v1 \o <<",">>
                                  \o v2 \o <<"}">>) =>
            app.call.accept =
                IF m = <<"a", "n", "y">>
                THEN Accepts(<<"0">> \o op \o v1, app.call.record)
                        \/ Accepts(<<"0">> \o op \o v2, app.call.record)
                ELSE Accepts(<<"0">> \o op \o v1, app.call.record)
                        /\ Accepts(<<"0">> \o op \o v2, app.call.record)

\* C26 witness: a list of two different values was compared under `any`
\* with a field equal to one of them (accepted), and a list of two patterns
\* was matched without a keyword against a field holding one of them only
\* (rejected).
C26_Witness ==
    /\ app.call.op = "check"
    /\ \/ /\ app.call.src = <<"0", "=", "=", "a", "n", "y", "{", "1", ",",
                             "2", "}">>
          /\ app.call.record[1] = <<"2">>
          /\ app.call.accept
       \/ /\ app.call.src = <<"0", "~", "{", "a", ",", "b", "}">>
          /\ app.call.record[1] = <<"a">>
          /\ ~app.call.accept

(***************************************************************************)
(* Specification SpecHighlight: Highlighter::new on sources of up to       *)
(* MaxSource bytes.                                                        *)
(***************************************************************************)
\* Longest source given to the highlighter.
MaxSource == 4
SourceChars == {"0", "a", " ", "!", "<", "&", "[", "\""}

HighlighterCall ==
    /\ app.call.op = "none"
    /\ \E source \in SeqsUpTo(SourceChars, MaxSource) :
          app' = [app EXCEPT !.call = [op |-> "highlight",
                                       source |-> source,
                                       styles |-> HighlighterNew(source)]]
    /\ UNCHANGED <<file, has_header, runs, fg, histogram>>

NextHighlight == HighlighterCall

SpecHighlight == InitSniff /\ [][NextHighlight]_vars

\* The break-points whose interval [position, next position) holds pos.
IntervalsOf(styles, pos) ==
    {k \in 1..(Len(styles) - 1) :
        styles[k][1] <= pos /\ pos < styles[k + 1][1]}

\* C27 as stated: the first break-point is at 0, positions strictly
\* increase from one break-point to the next, and every byte position of
\* the input falls in exactly one interval.
C27_StrictPartition ==
    app.call.op = "highlight" =>
        /\ app.call.styles[1][1] = 0
        /\ \A k \in 1..(Len(app.call.styles) - 1) :
              app.call.styles[k][1] < app.call.styles[k + 1][1]
        /\ \A pos \in 0..(Len(app.call.source) - 1) :
              Cardinality(IntervalsOf(app.call.styles, pos)) = 1

\* C27 amended: the first break-point is at 0; positions strictly increase
\* up to the last break-point but one; the last two break-points both stand
\* at the length of the input; every byte position of the input falls in
\* exactly one interval.
C27_PartitionWithSentinel ==
    app.call.op = "highlight" =>
        /\ app.call.styles[1][1] = 0
        /\ Len(app.call.styles) >= 2
        /\ \A k \in 1..(Len(app.call.styles) - 2) :
              app.call.styles[k][1] < app.call.styles[k + 1][1]
        /\ app.call.styles[Len(app.call.styles) - 1][1]
              = Len(app.call.source)
        /\ app.call.styles[Len(app.call.styles)]
              = <<Len(app.call.source), "None">>
        /\ \A pos \in 0..(Len(app.call.source) - 1) :
              Cardinality(IntervalsOf(app.call.styles, pos)) = 1

\* C27 witness: the source `0<a` was highlighted: three adjacent tokens,
\* each starting where the last break-point stands.
C27_Witness ==
    /\ app.call.op = "highlight"
    /\ app.call.source = <<"0", "<", "a">>
    /\ app.call.styles = << <<0, "Id">>, <<1, "Action">>, <<2, "Str">>,
                            <<3, "None">>, <<3, "None">> >>

(***************************************************************************)
(* Specification SpecRecord: NestedString::read_record on the text of one  *)
(* record.                                                                 *)
(***************************************************************************)
\* Longest record text read.
MaxLine == 4
LineChars == {"a", "b", ","}

ReadRecordCall ==
    /\ \E text \in SeqsUpTo(LineChars, MaxLine) :
          app' = [app EXCEPT !.call = [op |-> "read_record", text |-> text,
                                       record |-> ReadRecord(Decode(text))]]
    /\ UNCHANGED <<file, has_header, runs, fg, histogram>>

NextRecord == ReadRecordCall

SpecRecord == InitSniff /\ [][NextRecord]_vars

Downto(a, b) == [k \in 1..(a - b + 1) |-> a - k + 1]
\* The columns from a up to b, in that order.
Upto(a, b) == [k \in 1..(b - a + 1) |-> a + k - 1]

\* The order in which col_iter offers the columns of a grid of total
\* columns: from the cursor c down to the goal g, from c + 1 up to the last
\* column, from g - 1 down to 0.
PackingOrder(c, g, total) ==
    Downto(c, g) \o Upto(c + 1, total - 1) \o Downto(g - 1, 0)

C30_OriginIsCursor ==
    [][(app'.call.op = "col_iter" /\ app'.call.total >= 1
            /\ app'.nav.c_col < app.nav.o_col) =>
          app'.nav.o_col = app'.nav.c_col]_vars

\* C30 amended: when the clamped cursor lies left of the previous origin,
\* the origin after col_iter is the cursor column, unless fit accepted every
\* column from the cursor to the last one and then the column left of the
\* cursor: the origin is then left of the cursor, on the leftmost of the
\* columns below the cursor that fit accepted in a row.
C30_OriginIsCursorUnlessSpill ==
    [][(app'.call.op = "col_iter" /\ app'.call.total >= 1
            /\ app'.nav.c_col < app.nav.o_col) =>
          /\ app'.nav.o_col <= app'.nav.c_col
          /\ app'.nav.o_col < app'.nav.c_col <=>
                /\ (app'.nav.c_col)..(app'.call.total - 1)
                      \subseteq app'.call.fit
                /\ app'.nav.c_col - 1 \in app'.call.fit
          /\ (app'.nav.o_col)..(app'.nav.c_col - 1) \subseteq app'.call.fit
          /\ app'.nav.o_col < app'.nav.c_col =>
                \/ app'.nav.o_col = 0
                \/ app'.nav.o_col - 1 \notin app'.call.fit]_vars

\* C30 witness: the cursor on column 1 lay left of the previous origin, the
\* column right of it was refused, and the origin is the cursor column.
C30_Witness ==
    /\ app.call.op = "col_iter"
    /\ app.call.total >= 3
    /\ app.call.o_prev = 2
    /\ app.call.yielded = <<1, 2>>
    /\ app.nav.c_col = 1
    /\ app.nav.o_col = 1

(***************************************************************************)
(* Cols::set_nb_cols against the order, in SpecCols.                       *)
(***************************************************************************)
\* The source columns lo .. hi - 1 in increasing order.
Upfrom(lo, hi) == [i \in 1..Max(hi - lo, 0) |-> lo + i - 1]

\* The source columns of an order.
OrderCols(map) == {map[v] : v \in 1..Len(map)}

\* C31: set_nb_cols(n) appends to the order exactly the source columns
\* max_col .. n - 1 in increasing order and changes no entry that was there;
\* a column seen before and absent from the order (removed by Hide) is still
\* absent after the call; with n <= max_col the order is unchanged.
C31_AppendsUnseen ==
    app.call.op = "set_nb_cols" =>
        /\ app.cols.map =
              app.call.prev.map
                  \o Upfrom(app.call.prev.max_col, app.call.nb_col)
        /\ \A col \in 0..(app.call.prev.max_col - 1) :
              col \notin OrderCols(app.call.prev.map)
                  => col \notin OrderCols(app.cols.map)
        /\ app.call.nb_col <= app.call.prev.max_col
              => app.cols.map = app.call.prev.map

\* C31 witness: column 0 was hidden after one column had been seen, and
\* set_nb_cols(2) then appended column 1 alone.
C31_Witness ==
    /\ app.call.op = "set_nb_cols"
    /\ app.call.nb_col = 2
    /\ app.call.prev.max_col = 1
    /\ app.call.prev.map = <<>>
    /\ app.cols.map = <<1>>

(***************************************************************************)
(* The Indexer's shared vector and published column count (SpecIdx).       *)
(***************************************************************************)
\* C32 (as claimed): the worker appends an accepted record to its local
\* batch, and the shared entries vector changes only in the throttling
\* block, where the batch is flushed; between two throttling points the
\* vector is unchanged.
C32_EntriesChangeAtThrottle ==
    [][\A w \in DOMAIN runs :
          /\ runs'[w].index # runs[w].index => runs[w].pc = "flush"
          /\ (runs[w].pc = "push" /\ runs'[w].pc # "push") =>
                runs'[w].buff_pos
                    = Append(runs[w].buff_pos,
                             <<runs[w].count, runs[w].pos>>)]_vars

\* Largest field count among the header and the data records of the file.
RECURSIVE MaxFieldCount(_, _)
MaxFieldCount(headers, n) ==
    IF n = 0 THEN Len(headers)
    ELSE Max(MaxFieldCount(headers, n - 1), Len(ReadRecord(DataRecords[n])))

\* C33 (as claimed): once the worker has exited at end of file with the
\* handle kept, the published column count is the largest field count among
\* the header and every data record read, whatever the length of the source
\* and with or without a header.
C33_ColumnCountAtEof ==
    \A w \in DOMAIN runs :
        (runs[w].held /\ runs[w].exit = "eof") =>
            NbCol(runs[w])
                = MaxFieldCount(runs[w].headers, Len(DataRecords))

(***************************************************************************)
(* The row origin against the cursor (SpecNavRow).                         *)
(***************************************************************************)
\* C34 (as claimed): after any sequence of key events and row_offset calls,
\* with a viewport or a total of 0 rows too, o_row <= c_row.
C34_OriginAtMostCursor == app.nav.o_row <= app.nav.c_row

\* C34 (amended): a row_offset call with a viewport of at least one row
\* leaves o_row <= c_row, whatever the total; a call with a viewport of 0
\* rows leaves o_row <= c_row + 1; and after any call, whenever draw has a
\* row to draw, cursor_row() does not underflow.
C34_NoUnderflowOnDrawnRows ==
    app.call.op = "row_offset" =>
        /\ app.call.nb >= 1 => app.nav.o_row <= app.nav.c_row
        /\ app.call.nb = 0 => app.nav.o_row <= app.nav.c_row + 1
        /\ ~DrawRowsUnderflows(app.nav, app.call.total, app.call.nb)
        /\ DrawnRows(app.call.total, app.call.ret, app.call.nb) > 0 =>
              CursorRow(app.nav) \in 0..(app.call.nb - 1)

\* C34 witness: row_offset was called with a viewport of 0 rows on a
\* non-empty grid, the origin is past the cursor and no row is drawn.
C34_Witness ==
    /\ app.call.op = "row_offset"
    /\ app.call.nb = 0
    /\ app.call.total >= 2
    /\ app.nav.o_row = app.nav.c_row + 1
    /\ CursorRowUnderflows(app.nav)
    /\ DrawnRows(app.call.total, app.call.ret, app.call.nb) = 0

(***************************************************************************)
(* Specification SpecKeys: the main loop on a file of two columns, with    *)
(* the keys that issue a Cols command.                                     *)
(***************************************************************************)
\* The keys of SpecKeys, by mode.
ColsNormalKeys == {"-", "S-Left", "S-Right", "l", "s"}
ColsSizeKeys == {"Esc", "r", "h", "k"}

\* One key event of SpecKeys.  The cursor stays within MaxCoord.
ColsKeyEvent(k) ==
    /\ app.state \in {"Normal", "Size"}
    /\ k \in (IF app.state = "Normal" THEN ColsNormalKeys ELSE ColsSizeKeys)
    /\ (app.state = "Normal" /\ k \in {"l", "S-Right"})
          => app.nav.c_col < MaxCoord
    /\ KeyEvent(k, [op |-> "key", code |-> k])

NextKeys ==
    \/ LoopTop(ModeViews)
    \/ MainTimeout
    \/ \E k \in ColsNormalKeys \cup ColsSizeKeys : ColsKeyEvent(k)
    \/ MainBreak
    \/ AppWorker

SpecKeys == InitModes /\ [][NextKeys]_vars

\* C35 (as claimed): whatever keys came before, with or without a draw in
\* between, the Cols command a key event issues (Hide, Left, Right, or a
\* size command) indexes neither the order nor the size Vec out of bounds:
\* no key event ends in the panic of a Cols call.
C35_CommandsInBounds ==
    [][(app.ml \in {"poll", "events"} /\ app'.ml = "events"
            /\ ~app.panicked) =>
          ~(app'.panicked /\ app'.fault = "cols")]_vars

(***************************************************************************)
(* Histographer (src/histogram.rs).  The run is runs[1]: the State shared  *)
(* with the worker (file_len, nb_read, nb_item, nb_row; the Histogram      *)
(* under the mutex is the variable histogram), the foreground handle and   *)
(* the worker's locals.  fg holds the Histographer's Nav and the locals of *)
(* draw_grid.                                                              *)
(***************************************************************************)
\* Largest number of records of the file analyzed.
MaxAnalyze == 3
\* Largest height of the canvas.
MaxHeight == 2

\* Histographer::analyze: the State, and the worker about to enter
\* bg_analyze's loop on column off.
Analyze(f, off, filter, header) ==
    LET Start(skip) ==
            [file_len |-> SumSeq([k \in 1..Len(f) |-> Amount(f[k])]),
             nb_read |-> IF skip THEN Amount(f[1]) ELSE 0,
             nb_item |-> 0,
             nb_row |-> 0,
             filter |-> filter,
             idx |-> off,
             held |-> TRUE,
             pc |-> "read",
             exit |-> "",
             rd |-> IF skip THEN 1 ELSE 0,
             record |-> <<>>,
             amount |-> 0,
             ret |-> 0]
    IN Start(header /\ f # <<>>)

\* bg_analyze, `rdr.record(&mut record)?` returning Ok: the next record is
\* read, or the reader is at end of file and the worker leaves the loop.
HRead ==
    /\ runs[1].pc = "read"
    /\ runs' = [runs EXCEPT ![1] =
            IF runs[1].rd < Len(file)
            THEN [runs[1] EXCEPT
                    !.rd = @ + 1,
                    !.record = ReadRecord(file[runs[1].rd + 1]),
                    !.amount = Amount(file[runs[1].rd + 1]),
                    !.pc = "cancel"]
            ELSE [runs[1] EXCEPT !.amount = 0, !.pc = "done",
                                 !.exit = "eof"]]
    /\ UNCHANGED <<file, has_header, fg, app, histogram>>

\* bg_analyze, histogram.rs:124-126: a unique Arc means the run is
\* cancelled.
HCancel ==
    /\ runs[1].pc = "cancel"
    /\ runs' = [runs EXCEPT ![1] =
            IF StrongCount(runs[1]) = 1
            THEN [runs[1] EXCEPT !.pc = "done", !.exit = "cancel"]
            ELSE [runs[1] EXCEPT !.pc = "add_read"]]
    /\ UNCHANGED <<file, has_header, fg, app, histogram>>

\* bg_analyze, histogram.rs:127-129: nb_read.fetch_add(amount), then the
\* filter is evaluated on the record.
HAddRead ==
    /\ runs[1].pc = "add_read"
    /\ runs' = [runs EXCEPT ![1] =
            [runs[1] EXCEPT
                !.nb_read = @ + runs[1].amount,
                !.pc = IF Check(runs[1].filter, runs[1].record)
                       THEN "register" ELSE "read"]]
    /\ UNCHANGED <<file, has_header, fg, app, histogram>>

\* bg_analyze, histogram.rs:130-132: the trimmed field of the column is
\* registered under the lock, which is released at the end of the
\* statement.
HRegister ==
    /\ runs[1].pc = "register"
    /\ histogram' = Register(histogram,
                             RecordGet(runs[1].record, runs[1].idx))
    /\ runs' = [runs EXCEPT ![1] =
            [runs[1] EXCEPT
                !.ret = Len(Register(histogram,
                                     RecordGet(runs[1].record,
                                               runs[1].idx)).counts),
                !.pc = "store_row"]]
    /\ UNCHANGED <<file, has_header, fg, app>>

\* bg_analyze, histogram.rs:133: state.nb_row.store(nb_row).
HStoreRow ==
    /\ runs[1].pc = "store_row"
    /\ runs' = [runs EXCEPT ![1] =
            [runs[1] EXCEPT !.nb_row = runs[1].ret, !.pc = "add_item"]]
    /\ UNCHANGED <<file, has_header, fg, app, histogram>>

\* bg_analyze, histogram.rs:134: state.nb_item.fetch_add(1).
HAddItem ==
    /\ runs[1].pc = "add_item"
    /\ runs' = [runs EXCEPT ![1] =
            [runs[1] EXCEPT !.nb_item = @ + 1, !.pc = "read"]]
    /\ UNCHANGED <<file, has_header, fg, app, histogram>>

\* One step of the histographer worker.
HWorker ==
    \/ HRead
    \/ HCancel
    \/ HAddRead
    \/ HRegister
    \/ HStoreRow
    \/ HAddItem

\* Histogram::items: the counts in the order of the Vec.
Items(h) == [i \in 1..Len(h.counts) |-> h.counts[i].count]

\* Iterator::skip(offset).take(height)
SkipTake(items, offset, height) ==
    IF offset >= Len(items) THEN <<>>
    ELSE SubSeq(items, offset + 1, Min(offset + height, Len(items)))

\* histogram.rs:216, `count as f64 * 100. / nb_item.max(1) as f64`, in
\* hundredths of a percent (the two decimals displayed), rounded down.
Percent(count, nb_item) == (count * 10000) \div Max(nb_item, 1)

\* draw_grid, histogram.rs:166: nb_row is loaded.
DrawLoadRow ==
    /\ runs[1].held
    /\ fg.pc = "idle"
    /\ fg' = [fg EXCEPT !.nb_row = runs[1].nb_row, !.pc = "load_item"]
    /\ UNCHANGED <<file, has_header, runs, app, histogram>>

\* draw_grid, histogram.rs:167: nb_item is loaded.
DrawLoadItem ==
    /\ runs[1].held
    /\ fg.pc = "load_item"
    /\ fg' = [fg EXCEPT !.nb_item = runs[1].nb_item, !.pc = "lock"]
    /\ UNCHANGED <<file, has_header, runs, app, histogram>>

\* draw_grid, histogram.rs:168-225: the Nav is reconciled with the nb_row
\* loaded, the histogram is locked and the rows from the offset are drawn,
\* each with its percentage of the nb_item loaded.  height is the height of
\* the canvas.
DrawRows ==
    /\ runs[1].held
    /\ fg.pc = "lock"
    /\ \E height \in 1..MaxHeight :
          \E res \in {RowOffset(fg.nav, fg.nb_row, height - 1)} :
              \E rows \in {SkipTake(Items(histogram), res.ret, height)} :
                  fg' = [fg EXCEPT
                           !.nav = res.nav,
                           !.rows = rows,
                           !.percents =
                               [k \in 1..Len(rows) |->
                                   Percent(rows[k], fg.nb_item)],
                           !.drawn = TRUE,
                           !.pc = "idle"]
    /\ UNCHANGED <<file, has_header, runs, app, histogram>>

\* Histographer::up, Histographer::down, between two draws.
HgMove ==
    /\ runs[1].held
    /\ fg.pc = "idle"
    /\ \E dir \in {"up", "down"} :
          /\ dir = "down" => fg.nav.c_row < MaxHeight
          /\ fg' = [fg EXCEPT !.nav = NavMove(fg.nav, dir)]
    /\ UNCHANGED <<file, has_header, runs, app, histogram>>

\* The Histographer is dropped between two draws.
HgDrop ==
    /\ runs[1].held
    /\ fg.pc = "idle"
    /\ runs' = [runs EXCEPT ![1].held = FALSE]
    /\ UNCHANGED <<file, has_header, fg, app, histogram>>

(***************************************************************************)
(* Specification SpecHistographer: one Histographer over a file, its       *)
(* worker interleaved with the draws of the foreground.                    *)
(***************************************************************************)
InitHistographer ==
    /\ file \in SeqsUpTo(RecordKinds, MaxAnalyze)
    /\ has_header \in BOOLEAN
    /\ has_header => Len(file) >= 2
    /\ \E src \in IdxFilterSources, off \in 0..1 :
          /\ Compile(src, IdxNbCol).ok
          /\ runs = << Analyze(file, off, Compile(src, IdxNbCol).f,
                               has_header) >>
    /\ fg = [pc |-> "idle", nav |-> NavNew, nb_row |-> 0, nb_item |-> 0,
             rows |-> <<>>, percents |-> <<>>, drawn |-> FALSE]
    /\ app = appInit
    /\ histogram = HistogramNew

NextHistographer ==
    \/ HWorker
    \/ DrawLoadRow
    \/ DrawLoadItem
    \/ DrawRows
    \/ HgMove
    \/ HgDrop

SpecHistographer == InitHistographer /\ [][NextHistographer]_vars

\* C36 (as claimed): under every interleaving of the worker with a draw,
\* each count the draw read from the histogram is at most the nb_item the
\* draw loaded as the denominator, so no percentage drawn exceeds 100.
C36_CountsWithinTotal ==
    fg.drawn =>
        \A k \in 1..Len(fg.rows) :
            /\ fg.rows[k] <= fg.nb_item
            /\ fg.percents[k] <= 10000

(***************************************************************************)
(* Source::check_dirty (src/source.rs) and the dirty flag of the App.      *)
(* fg.source is the SourceKind: its kind, the modification time recorded   *)
(* (m_time) and whether WATCHER_POOL has elapsed since `last`; fg.disk is  *)
(* the modification time of the file on disk.                              *)
(***************************************************************************)
\* Largest modification time of the file.
MaxMTime == 2

\* Source::check_dirty returning Ok: the Source after the call, the value
\* returned and whether the file was stat'ed.
CheckDirty(src, disk) ==
    IF src.kind = "File"
    THEN IF ~src.elapsed
         THEN [src |-> src, ret |-> FALSE, stat |-> FALSE]
         ELSE IF disk # src.m_time
              THEN [src |-> [src EXCEPT !.elapsed = FALSE, !.m_time = disk],
                    ret |-> TRUE, stat |-> TRUE]
              ELSE [src |-> [src EXCEPT !.elapsed = FALSE],
                    ret |-> FALSE, stat |-> TRUE]
    ELSE [src |-> src, ret |-> FALSE, stat |-> FALSE]

\* App::draw, main.rs:486-489 with the rest of the frame: check_dirty is
\* called, and unwrapped, only while the flag is down.
DrawChecked(a, rs, cd, err, view) ==
    IF a.dirty THEN Draw(a, rs, "ok", view).a
    ELSE IF cd.stat /\ err THEN Draw(a, rs, "error", view).a
    ELSE Draw(a, rs, IF cd.ret THEN "changed" ELSE "ok", view).a

\* main.rs:51-57 with the Source: the frame is drawn if asked for.
DirtyTop ==
    /\ Running
    /\ app.ml = "top"
    /\ \E view \in AppViews, err \in BOOLEAN :
          \E cd \in {CheckDirty(fg.source, fg.disk)} :
              /\ app' = [(IF app.redraw
                          THEN DrawChecked(app, runs, cd, err, view)
                          ELSE app)
                            EXCEPT !.is_loading = IsLoading(runs[app.indexer]),
                                   !.redraw = FALSE,
                                   !.ml = "poll"]
              /\ fg' = IF app.redraw /\ ~app.dirty /\ ~(cd.stat /\ err)
                       THEN [fg EXCEPT !.source = cd.src]
                       ELSE fg
    /\ UNCHANGED <<file, has_header, runs, histogram>>

\* WATCHER_POOL elapses since `last`.
DirtyElapse ==
    /\ Running
    /\ fg.source.kind = "File"
    /\ ~fg.source.elapsed
    /\ fg' = [fg EXCEPT !.source.elapsed = TRUE]
    /\ UNCHANGED <<file, has_header, runs, app, histogram>>

\* Another process writes the file: its modification time advances.
DirtyModify ==
    /\ Running
    /\ fg.source.kind = "File"
    /\ fg.disk < MaxMTime
    /\ fg' = [fg EXCEPT !.disk = @ + 1]
    /\ UNCHANGED <<file, has_header, runs, app, histogram>>

\* The key 'r' (or an arrow key) in normal mode; the dirty flag and the
\* modification time of the file at that moment are kept with the key.
DirtyEvent(k) ==
    /\ app.state = "Normal"
    /\ k \in {"r", "Up"}
    /\ KeyEvent(k, [op |-> "key", code |-> k, dirty |-> app.dirty,
                    disk |-> fg.disk])

(***************************************************************************)
(* Specification SpecDirty: the main loop over a file another process      *)
(* modifies, with the refresh key.                                         *)
(***************************************************************************)
InitDirty ==
    /\ file = AppFile
    /\ has_header = FALSE
    /\ runs = << NewRun(AppFile, EmptyFilter, FALSE) >>
    /\ \E kind \in {"File", "Stdin"} :
          fg = [source |-> [kind |-> kind, m_time |-> 0, elapsed |-> FALSE],
                disk |-> 0]
    /\ app = appInit
    /\ histogram = HistogramNew

NextDirty ==
    \/ DirtyTop
    \/ MainTimeout
    \/ \E k \in {"r", "Up"} : DirtyEvent(k)
    \/ MainBreak
    \/ DirtyElapse
    \/ DirtyModify
    \/ AppWorker

SpecDirty == InitDirty /\ [][NextDirty]_vars

\* C37 (as claimed): once a refresh has cleared a raised dirty flag, a draw
\* raises it again only if the modification time of the file has changed
\* since that refresh.
C37_DirtyOnlyOnLaterChange ==
    [][(app.call.op = "key" /\ app.call.code = "r" /\ app.call.dirty
            /\ ~app.dirty /\ app'.dirty) =>
          fg.disk # app.call.disk]_vars

(***************************************************************************)
(* Specification SpecWhitespace: Filter::new on a source and on the same   *)
(* source followed by whitespace.                                          *)
(***************************************************************************)
\* Longest source and longest run of blanks appended to it.
MaxPadded == 3
MaxPad == 2
PaddedChars == {"0", "a", " ", "!", "&"}

\* n blanks.
Blanks(n) == [k \in 1..n |-> " "]

\* Filter::new on source and on source followed by pad blanks.
CompilePadded ==
    /\ app.call.op = "none"
    /\ \E source \in SeqsUpTo(PaddedChars, MaxPadded), pad \in 1..MaxPad :
          app' = [app EXCEPT !.call =
                    [op |-> "padded", source |-> source, pad |-> pad,
                     plain |-> Compile(source, FilterNbCol),
                     padded |-> Compile(source \o Blanks(pad),
                                        FilterNbCol)]]
    /\ UNCHANGED <<file, has_header, runs, fg, histogram>>

NextWhitespace == CompilePadded

SpecWhitespace == InitSniff /\ [][NextWhitespace]_vars

\* C38 (as claimed): for every source, compiling it and compiling it
\* followed by whitespace both fail or both succeed with the same nodes; in
\* particular whitespace alone compiles to the identity filter (no node).
C38_TrailingWhitespace ==
    app.call.op = "padded" =>
        /\ app.call.plain.ok = app.call.padded.ok
        /\ app.call.plain.ok =>
              app.call.padded.f.nodes = app.call.plain.f.nodes
        /\ app.call.source = <<>> =>
              app.call.padded.ok /\ app.call.padded.f.nodes = <<>>

\* C39 (as claimed): sniff_has_header returns a boolean without failing for
\* every pair of first two records: a second record with more fields than
\* the first, with fewer, or absent (no field read).
C39_SniffNeverFails ==
    app.call.op = "sniff_has_header" =>
        /\ ~app.call.res.panics
        /\ app.call.res.ret \in BOOLEAN

(***************************************************************************)
(* Specification SpecRangeBounds: parse_range on ranges whose operands     *)
(* reach u32::MAX, and the slice Engine::by_id takes with the bounds.      *)
(***************************************************************************)
\* Operands of the ranges: the smallest and the largest u32 values.
EdgeOperands == (0..MaxOperand) \cup ((U32_MAX - MaxOperand + 1)..U32_MAX)
\* Fields sliced.
RangeFields == {<<>>, <<"a">>, <<"a", "b">>}

RangeBoundsCall ==
    /\ \E start \in EdgeOperands, end \in EdgeOperands \cup {-1},
          sep \in RangeSeps, field \in RangeFields :
          /\ sep = "" => end = -1
          /\ \E src \in {RangeText(TRUE, start, sep, end, TRUE)} :
                app' = [app EXCEPT !.call =
                          [op |-> "range_bounds", src |-> src,
                           start |-> start, sep |-> sep, end |-> end,
                           field |-> field,
                           res |-> ParseRange(src, RangeTokenize(src), 1,
                                              EmptyFilter)]]
    /\ UNCHANGED <<file, has_header, runs, fg, histogram>>

NextRangeBounds == RangeBoundsCall

SpecRangeBounds == InitSniff /\ [][NextRangeBounds]_vars

\* C40 (as claimed): for operands up to u32::MAX the end bound of [S] and of
\* [S~L] is the exact value S + 1 or S + L whenever compilation succeeds
\* (it fails otherwise), and slicing a field with the compiled bounds
\* clamped to its length never fails.
C40_EndBoundExact ==
    (app.call.op = "range_bounds" /\ app.call.res.ok) =>
        /\ (app.call.sep = "" /\ app.call.end < 0) =>
              app.call.res.v = <<app.call.start, app.call.start + 1>>
        /\ (app.call.sep = "~" /\ app.call.end >= 0) =>
              app.call.res.v
                  = <<app.call.start, app.call.start + app.call.end>>
        /\ ~SlicePanics(app.call.field, app.call.res.v[1],
                        app.call.res.v[2])

=============================================================================
